---- MODULE Spec2Model ----
(***************************************************************************)
(* Taxonomy embedding pipeline of custom-taxonomy-classifier:              *)
(*   - the task_status table and PostgresClient (add_task, update_task,    *)
(*     get_task_status) of api/database/postgres_client.py;                *)
(*   - the pipeline run of api/generate_taxonomy_embeddings.py and         *)
(*     api/services/taxonomy_service.py;                                   *)
(*   - the batch embedder and the media describer of                       *)
(*     api/common/vertex_client.py;                                        *)
(*   - the classification of api/services/classify_service.py;             *)
(*   - the index deployment of api/common/ai_platform_client.py.           *)
(***************************************************************************)
EXTENDS Integers, Sequences, FiniteSets, TLC

\* ------------------------------------------------------------------ bounds
\* task ids the callers draw from
TaskIds == {"t1", "t2"}
\* number of PostgresClient calls of the sequential client
MaxCalls == 3
\* number of pipeline runs (jobs) started one after the other
MaxRuns == 2
\* number of add_task calls each concurrent caller makes
MaxAdds == 2
\* number of full batches the text lists handed to the embedder reach
MaxBatches == 2
\* number of media paths of a request
MaxMedia == 2
\* number of texts of a request to classify
MaxTexts == 2
\* number of deploy_embedding_index_to_endpoint calls of a client
MaxDeploys == 3
\* number of resources of the backend at a time: the endpoints created so
\* far, the indexes deployed on them and the indexes
MaxResources == 4
\* number of full files a corpus fills
MaxFiles == 2
\* number of rows of the short columns read from the worksheet
MaxRows == 3
\* runs of the classification cron
MaxCronRuns == 2
\* jobs started by the route, of which two at a time are running
MaxJobs == 3

\* ------------------------------------------------------- datamodel/task.py
TaskStatus ==
  { "STARTED",
    "IN_PROGRESS_GETTING_EMBEDDINGS",
    "IN_PROGRESS_WRITING_EMBEDDINGS_TO_DB",
    "IN_PROGRESS_WRITING_EMBEDDINGS_TO_GCS",
    "IN_PROGRESS_CREATING_EMBEDDINGS_INDEX",
    "IN_PROGRESS_CREATING_EMBEDDINGS_INDEX_ENDPOINT",
    "IN_PROGRESS_DEPLOYING_EMBEDDINGS_INDEX_TO_ENDPOINT",
    "SUCCEEDED",
    "NOT_FOUND",
    "FAILED" }

\* the values of the enum members
TaskStatusValue(s) ==
  CASE s = "STARTED" -> 1
    [] s = "IN_PROGRESS_GETTING_EMBEDDINGS" -> 2
    [] s = "IN_PROGRESS_WRITING_EMBEDDINGS_TO_DB" -> 3
    [] s = "IN_PROGRESS_WRITING_EMBEDDINGS_TO_GCS" -> 4
    [] s = "IN_PROGRESS_CREATING_EMBEDDINGS_INDEX" -> 5
    [] s = "IN_PROGRESS_CREATING_EMBEDDINGS_INDEX_ENDPOINT" -> 6
    [] s = "IN_PROGRESS_DEPLOYING_EMBEDDINGS_INDEX_TO_ENDPOINT" -> 7
    [] s = "SUCCEEDED" -> 80
    [] s = "NOT_FOUND" -> 90
    [] s = "FAILED" -> 100

\* --------------------------------------------------------- sqlalchemy.exc
\* the error classes the except clauses of PostgresClient name, with their
\* base class in sqlalchemy.exc; NotImplementedError is python's subclass of
\* RuntimeError
BaseClass(e) ==
  CASE e = "IntegrityError" -> "DatabaseError"
    [] e = "NotImplementedError" -> "RuntimeError"
    [] e = "OperationalError" -> "DatabaseError"
    [] e = "DatabaseError" -> "DBAPIError"
    [] e = "InterfaceError" -> "DBAPIError"
    [] OTHER -> "Exception"

RECURSIVE IsInstance(_, _)
IsInstance(e, cls) ==
  IF e = cls THEN TRUE
  ELSE IF e = "Exception" THEN FALSE
  ELSE IsInstance(BaseClass(e), cls)

\* what a request to the store can raise on its own ("none": it succeeds)
Faults == {"none", "OperationalError", "InterfaceError"}

\* a NULL timestamp column; the clock starts above it
NoTime == 0

VARIABLES
  task_status,   \* the table task_status: a sequence of rows
  now,           \* the clock the timestamps are read from
  last,          \* the PostgresClient call an API client just made, and its outcome
  calls,         \* number of calls the sequential client has made
  pc,            \* position of the pipeline run
  task_id,       \* TASK_ID of the pipeline run
  runs,          \* number of runs started
  events,        \* what the current run did, in order
  failedStep,    \* the step of the current run that raised, or "none"
  cpc,           \* concurrent callers: position inside add_task
  ctask,         \* concurrent callers: the task id of the call
  clost,         \* concurrent callers: the insert hit the primary key
  craised,       \* concurrent callers: what the call raised
  cfault,        \* concurrent callers: a request of the call met a fault
  cadds,         \* concurrent callers: number of calls started
  overlap,       \* the callers' current calls overlapped on one task id
  rowBefore,     \* concurrent callers: a row of the task id existed when
                 \* the call, or the call it overlaps, began
  epc,                \* get_embeddings_batch: position of the call
  text_list,          \* get_embeddings_batch: argument text_list
  media_descriptions, \* get_embeddings_batch: argument media_descriptions
  output_keys,        \* get_embeddings_batch: local output_keys
  text_values,        \* get_embeddings_batch: local text_values
  batch_start,        \* get_embeddings_batch: local batch_start
  embeddings_vectors, \* get_embeddings_batch: local embeddings_vectors
  batches,            \* the calls the embeddings provider received
  embeddings,         \* get_embeddings_batch: the map returned
  eraised,            \* get_embeddings_batch: what the call raised
  dpc,                  \* generate_descriptions_from_medias: position
  media_paths,          \* generate_descriptions_from_medias: argument
  generation_responses, \* the outcome of the call made for each media path
  descriptions,         \* generate_descriptions_from_medias: list returned
  draised,              \* generate_descriptions_from_medias: what it raised
  kpc,                \* classify: position of the call
  request,            \* classify: arguments text, media_uri and embeddings
  ncalls,             \* classify: calls of describer, embedder and index
  results,            \* classify: the list returned
  kraised,            \* classify: what the call raised
  embedding_index_deployed_id, \* AiPlatformClient: id of the deployed index
  time_ns,            \* the clock read by time.time_ns()
  deployments,        \* the deploy_embedding_index_to_endpoint calls made
  backend_deployed,   \* ids of the indexes deployed on the backend
  backend_endpoints,  \* the index endpoints of the backend, as it lists them
  backend_indexes,    \* the indexes of the backend, as it lists them
  endpoints_created,  \* number of endpoints the backend has created so far
  embedding_index_endpoint, \* AiPlatformClient: the endpoint resolved
  ilast,              \* the AiPlatformClient call just made, and its outcome
  torn_down,          \* the client has deleted all endpoints since __init__
  spc,                \* taxonomy corpus: position of the service
  col_values,         \* taxonomy corpus: the column read from the worksheet
  header,             \* taxonomy corpus: argument header
  taxonomy,           \* taxonomy corpus: the categories of the Taxonomy
  category_embeddings, \* taxonomy corpus: the map the embedder returned
  uploads,            \* the files uploaded to the bucket, in order
  sraised,            \* taxonomy corpus: what the service raised
  file_name,          \* write_taxonomy_embeddings: local file_name
  bucket,             \* the blobs of the bucket, listed by name
  index_contents,     \* ids of the records of the index the run built
  cron_runs,          \* classification cron: number of runs started
  keywords,           \* classification cron: the spending keywords read
  api_responses,      \* what the classify API does on the attempts of a request
  requests_sent,      \* classification cron: requests sent to the classify API
  api_raised,         \* classification cron: what send_api_request raised
  classified_keywords, \* classification cron: keyword -> category computed
  keyword_map,        \* classification cron: the current mapping read
  new_classified_keywords, \* classification cron: the keywords to write
  query_jobs,         \* the jobs the run issued to BigQuery to write
  keywords_table,     \* BigQuery: the table keywords
  staging_table,      \* BigQuery: the table keywords_staging
  response_status,    \* classification cron: status of the flask.Response
  restarted,          \* job: restart_cloud_run_service was invoked
  exit_code,          \* job: << >> while the process runs, else << its code >>
  opc,                \* overlapping jobs: the step each execution is at
  ojob,               \* overlapping jobs: the number of the job of each
  ojobs,              \* overlapping jobs: number of jobs started
  ohandle,            \* overlapping jobs: the endpoint each job has created
  olog                \* overlapping jobs: the backend calls made, in order

vars == << task_status, now, last, calls, pc, task_id, runs, events,
           failedStep, cpc, ctask, clost, craised, cfault, cadds, overlap,
           rowBefore, epc, text_list, media_descriptions, output_keys,
           text_values, batch_start, embeddings_vectors, batches, embeddings,
           eraised, dpc, media_paths, generation_responses, descriptions,
           draised, kpc, request, ncalls, results, kraised,
           embedding_index_deployed_id, time_ns, deployments,
           backend_deployed, backend_endpoints, backend_indexes,
           endpoints_created, embedding_index_endpoint, ilast, torn_down, spc,
           col_values, header, taxonomy, category_embeddings, uploads,
           sraised, file_name, bucket, index_contents, cron_runs,
           keywords, api_responses, requests_sent, api_raised, classified_keywords,
           keyword_map, new_classified_keywords, query_jobs, keywords_table,
           staging_table, response_status, restarted, exit_code, opc, ojob,
           ojobs, ohandle, olog >>

trackerVars == << task_status, now, last, calls >>
pipelineVars == << pc, task_id, runs, events, failedStep >>
concVars ==
  << cpc, ctask, clost, craised, cfault, cadds, overlap, rowBefore >>
embedVars ==
  << epc, text_list, media_descriptions, output_keys, text_values,
     batch_start, embeddings_vectors, batches, embeddings, eraised >>
describeVars ==
  << dpc, media_paths, generation_responses, descriptions, draised >>
classifyVars == << kpc, request, ncalls, results, kraised >>
deployVars ==
  << embedding_index_deployed_id, time_ns, deployments, backend_deployed >>
indexVars == << embedding_index_endpoint, ilast, torn_down >>
backendVars == << backend_endpoints, backend_indexes, endpoints_created >>
corpusVars ==
  << spc, col_values, header, taxonomy, category_embeddings, uploads,
     sraised, file_name, bucket, index_contents >>
cronVars ==
  << cron_runs, keywords, api_responses, requests_sent, api_raised,
     classified_keywords, keyword_map, new_classified_keywords, query_jobs,
     keywords_table, staging_table, response_status >>
mainVars == << restarted, exit_code >>
overlapVars == << opc, ojob, ojobs, ohandle, olog >>
jobVars == << cronVars, mainVars, overlapVars >>
publishVars == << backendVars, indexVars, corpusVars >>
clientVars ==
  << embedVars, describeVars, classifyVars, deployVars, indexVars,
     corpusVars, jobVars >>
serverVars == << trackerVars, pipelineVars, concVars, jobVars >>

\* ------------------------------------------------------------ python values
\* a string is the pair of what os.path.splitext splits it into: a root
\* (numbered) and the extension after the last dot ("" when there is none)
Str(root, ext) == << root, ext >>

\* an Optional[list] argument: None, or a list
None == [none |-> TRUE, list |-> << >>]
Some(l) == [none |-> FALSE, list |-> l]

\* a dict: its keys in the order of their first insertion, and their values
EmptyDict == [keys |-> << >>, map |-> << >>]

\* d.update(e): the keys of e that d lacks are inserted after the keys of d,
\* in their order in e; the value of a key of e replaces its value in d
DictUpdate(d, e) ==
  LET IsNew(k) == k \notin DOMAIN d.map
  IN [keys |-> d.keys \o SelectSeq(e.keys, IsNew), map |-> e.map @@ d.map]

\* zip(a, b): stops at the end of the shorter list
zip(a, b) ==
  [i \in 1..(IF Len(a) <= Len(b) THEN Len(a) ELSE Len(b)) |-> << a[i], b[i] >>]

\* the dict of pairs[lo..hi], inserted one after the other: computed by
\* halves, the second half updating the first
RECURSIVE DictFrom(_, _, _)
DictFrom(pairs, lo, hi) ==
  IF lo > hi THEN EmptyDict
  ELSE IF lo = hi
  THEN [keys |-> << pairs[lo][1] >>, map |-> (pairs[lo][1] :> pairs[lo][2])]
  ELSE LET mid == (lo + hi) \div 2
       IN DictUpdate(DictFrom(pairs, lo, mid), DictFrom(pairs, mid + 1, hi))

\* dict(pairs): a key keeps the position of its first pair and takes the
\* value of its last pair
dict(pairs) == DictFrom(pairs, 1, Len(pairs))

\* an argument of classify: None, one string, or a list of strings
NoArg == [kind |-> "none", value |-> << >>]
StrArg(str) == [kind |-> "str", value |-> str]
ListArg(l) == [kind |-> "list", value |-> l]

\* a field of a ClassifyResult that is None
NULL == << >>

\* classify before its first call: no arguments, no calls made
NoRequest == [text |-> NoArg, media_uri |-> NoArg, embeddings |-> FALSE]
NoCalls == [describer |-> 0, embedder |-> 0, index |-> 0]

\* AiPlatformClient with no deployed index resolved
NoDeployedId == << >>

\* self.embedding_index_endpoint is None
NoEndpoint == 0

\* the executions of the job that run at a time
Executions == {"A", "B"}

\* no call of the AiPlatformClient made yet
NoIndexCall ==
  [op |-> "none", raised |-> "none", listed |-> 0, arg |-> << >>,
   queries |-> << >>, result |-> << >>]

\* ------------------------------------------- database/queries.py, models.py
\* models.TaxonomyEmbeddingsStatus: task_id is the primary key
PrimaryKeyViolated(table, t) ==
  \E i \in DOMAIN table : table[i].task_id = t

\* queries.AddTask: INSERT INTO task_status (task_id, status); time_created
\* takes the server default now(), time_updated has no server default
InsertRow(table, t, s, ts) ==
  Append(table, [task_id |-> t, status |-> s,
                 time_created |-> ts, time_updated |-> NoTime])

\* mutant: an UPDATE that only moves a status forward
UpdateRows_ForwardOnly(table, t, s, ts) ==
  [i \in DOMAIN table |->
     IF /\ table[i].task_id = t
        /\ TaskStatusValue(s) >= TaskStatusValue(table[i].status)
     THEN [table[i] EXCEPT !.status = s, !.time_updated = ts]
     ELSE table[i]]

\* queries.UpdateTaskStatus: UPDATE ... SET status, time_updated WHERE task_id
UpdateRows(table, t, s, ts) ==
  [i \in DOMAIN table |->
     IF table[i].task_id = t
     THEN [table[i] EXCEPT !.status = s, !.time_updated = ts]
     ELSE table[i]]

\* queries.GetTaskStatus: SELECT ... WHERE task_id ORDER BY time_updated DESC
\* LIMIT 1 (a NULL time_updated sorts first in descending order)
SelectRows(table, t) ==
  LET match == {i \in DOMAIN table : table[i].task_id = t}
      Before(i, j) ==
        \/ table[i].time_updated = NoTime /\ table[j].time_updated # NoTime
        \/ /\ table[i].time_updated # NoTime
           /\ table[j].time_updated # NoTime
           /\ table[i].time_updated > table[j].time_updated
        \/ table[i].time_updated = table[j].time_updated /\ i < j
  IN IF match = {} THEN << >>
     ELSE << table[CHOOSE i \in match :
                     \A j \in match \ {i} : Before(i, j)] >>

\* ------------------------------------------- database/postgres_client.py
\* the error a handler lets out: translated when an except clause names a
\* base class of it
Translate(e, catches) ==
  IF \E c \in catches : IsInstance(e, c) THEN "PostgresClientError" ELSE e

UpdateTaskCatches == {"DatabaseError", "DBAPIError"}
AddTaskCatches == {"DatabaseError", "DBAPIError"}
GetTaskStatusCatches == {"DatabaseError"}

\* PostgresClient.update_task: one UPDATE and commit
update_task(table, t, s, ts, fault) ==
  IF fault = "none"
  THEN [table |-> UpdateRows(table, t, s, ts), raised |-> "none",
        inserted |-> 0, updates |-> << s >>, lost |-> FALSE]
  ELSE [table |-> table, raised |-> Translate(fault, UpdateTaskCatches),
        inserted |-> 0, updates |-> << >>, lost |-> FALSE]

\* mutant: an INSERT into a table without the primary key
add_task_insert_Unchecked(table, t, ts, fault) ==
  IF fault # "none" THEN [table |-> table, err |-> fault]
  ELSE [table |-> InsertRow(table, t, "STARTED", ts), err |-> "none"]

\* the INSERT and commit of add_task: the new table and the error raised
add_task_insert(table, t, ts, fault) ==
  IF fault # "none" THEN [table |-> table, err |-> fault]
  ELSE IF PrimaryKeyViolated(table, t)
       THEN [table |-> table, err |-> "IntegrityError"]
       ELSE [table |-> InsertRow(table, t, "STARTED", ts), err |-> "none"]

\* mutant: on IntegrityError the row is written again instead of updated
add_task_Reinsert(table, t, ts, faultInsert, faultUpdate) ==
  LET ins == add_task_insert(table, t, ts, faultInsert)
  IN IF ins.err = "none"
     THEN [table |-> ins.table, raised |-> "none",
           inserted |-> 1, updates |-> << >>, lost |-> FALSE]
     ELSE IF IsInstance(ins.err, "IntegrityError")
     THEN [table |-> InsertRow(table, t, "STARTED", ts), raised |-> "none",
           inserted |-> 1, updates |-> << >>, lost |-> TRUE]
     ELSE [table |-> table, raised |-> Translate(ins.err, AddTaskCatches),
           inserted |-> 0, updates |-> << >>, lost |-> FALSE]

\* PostgresClient.add_task: INSERT; on IntegrityError update_task(STARTED)
add_task(table, t, ts, faultInsert, faultUpdate) ==
  LET ins == add_task_insert(table, t, ts, faultInsert)
  IN IF ins.err = "none"
     THEN [table |-> ins.table, raised |-> "none",
           inserted |-> 1, updates |-> << >>, lost |-> FALSE]
     ELSE IF IsInstance(ins.err, "IntegrityError")
     THEN [update_task(table, t, "STARTED", ts, faultUpdate)
             EXCEPT !.lost = TRUE]
     ELSE [table |-> table, raised |-> Translate(ins.err, AddTaskCatches),
           inserted |-> 0, updates |-> << >>, lost |-> FALSE]

\* mutant: the NOT_FOUND record carries empty time fields
get_task_status_EmptyTimes(table, t, fault) ==
  IF fault # "none"
  THEN [raised |-> Translate(fault, GetTaskStatusCatches), result |-> << >>]
  ELSE LET rows == SelectRows(table, t)
       IN IF rows # << >>
          THEN [raised |-> "none",
                result |-> [task_id |-> rows[Len(rows)].task_id,
                            status |-> rows[Len(rows)].status,
                            time_created |-> rows[Len(rows)].time_created,
                            time_updated |-> rows[Len(rows)].time_updated]]
          ELSE [raised |-> "none",
                result |-> [task_id |-> t, status |-> "NOT_FOUND",
                            time_created |-> NoTime,
                            time_updated |-> NoTime]]

\* PostgresClient.get_task_status: the dict returned, or the error raised
get_task_status(table, t, fault) ==
  IF fault # "none"
  THEN [raised |-> Translate(fault, GetTaskStatusCatches), result |-> << >>]
  ELSE LET rows == SelectRows(table, t)
       IN IF rows # << >>
          THEN [raised |-> "none",
                result |-> [task_id |-> rows[Len(rows)].task_id,
                            status |-> rows[Len(rows)].status,
                            time_created |-> rows[Len(rows)].time_created,
                            time_updated |-> rows[Len(rows)].time_updated]]
          ELSE [raised |-> "none",
                result |-> [task_id |-> t, status |-> "NOT_FOUND"]]

NoCall ==
  [op |-> "none", task_id |-> "", status |-> "", raised |-> "none",
   faults |-> << >>, inserted |-> 0, updates |-> << >>, lost |-> FALSE,
   before |-> << >>, result |-> << >>]


Init ==
  /\ task_status = << >>
  /\ now = 1
  /\ last = NoCall
  /\ calls = 0
  /\ pc = "idle"
  /\ task_id = ""
  /\ runs = 0
  /\ events = << >>
  /\ failedStep = "none"
  /\ cpc = [p \in 1..2 |-> "idle"]
  /\ ctask = [p \in 1..2 |-> ""]
  /\ clost = [p \in 1..2 |-> FALSE]
  /\ craised = [p \in 1..2 |-> "none"]
  /\ cfault = [p \in 1..2 |-> FALSE]
  /\ cadds = [p \in 1..2 |-> 0]
  /\ overlap = FALSE
  /\ rowBefore = [p \in 1..2 |-> FALSE]
  /\ epc = "idle"
  /\ text_list = None
  /\ media_descriptions = None
  /\ output_keys = << >>
  /\ text_values = << >>
  /\ batch_start = 0
  /\ embeddings_vectors = << >>
  /\ batches = << >>
  /\ embeddings = EmptyDict
  /\ eraised = "none"
  /\ dpc = "idle"
  /\ media_paths = << >>
  /\ generation_responses = << >>
  /\ descriptions = << >>
  /\ draised = "none"
  /\ kpc = "idle"
  /\ request = NoRequest
  /\ ncalls = NoCalls
  /\ results = << >>
  /\ kraised = "none"
  /\ embedding_index_deployed_id = NoDeployedId
  /\ time_ns = 1
  /\ deployments = << >>
  /\ backend_deployed = {}
  /\ backend_endpoints = << >>
  /\ backend_indexes = << >>
  /\ endpoints_created = 0
  /\ embedding_index_endpoint = NoEndpoint
  /\ ilast = NoIndexCall
  /\ torn_down = FALSE
  /\ restarted = FALSE
  /\ exit_code = << >>
  /\ opc = [e \in Executions |-> "idle"]
  /\ ojob = [e \in Executions |-> 0]
  /\ ojobs = 0
  /\ ohandle = [e \in Executions |-> NoEndpoint]
  /\ olog = << >>
  /\ spc = "idle"
  /\ col_values = << >>
  /\ header = TRUE
  /\ taxonomy = << >>
  /\ category_embeddings = EmptyDict
  /\ uploads = << >>
  /\ sraised = "none"
  /\ file_name = "Unassigned"
  /\ bucket = << >>
  /\ index_contents = << >>
  /\ cron_runs = 0
  /\ keywords = << >>
  /\ api_responses = << >>
  /\ requests_sent = 0
  /\ api_raised = "none"
  /\ classified_keywords = << >>
  /\ keyword_map = << >>
  /\ new_classified_keywords = << >>
  /\ query_jobs = << >>
  /\ keywords_table = {}
  /\ staging_table = {}
  /\ response_status = 0

\* ---------------------------------------------------------------------------
\* A client that calls the three operations of PostgresClient one after the
\* other, each request to the store either succeeding or raising a fault.
\* ---------------------------------------------------------------------------
AddTask(t, faultInsert, faultUpdate) ==
  /\ calls < MaxCalls
  /\ LET r == add_task(task_status, t, now, faultInsert, faultUpdate)
     IN /\ task_status' = r.table
        /\ last' = [op |-> "add_task", task_id |-> t, status |-> "STARTED",
                    raised |-> r.raised,
                    faults |-> << faultInsert, faultUpdate >>,
                    inserted |-> r.inserted, updates |-> r.updates,
                    lost |-> r.lost, before |-> task_status,
                    result |-> << >>]
  /\ now' = now + 1
  /\ calls' = calls + 1
  /\ UNCHANGED << pipelineVars, concVars, clientVars, backendVars >>

UpdateTask(t, s, fault) ==
  /\ calls < MaxCalls
  /\ LET r == update_task(task_status, t, s, now, fault)
     IN /\ task_status' = r.table
        /\ last' = [op |-> "update_task", task_id |-> t, status |-> s,
                    raised |-> r.raised, faults |-> << fault >>,
                    inserted |-> r.inserted, updates |-> r.updates,
                    lost |-> r.lost, before |-> task_status,
                    result |-> << >>]
  /\ now' = now + 1
  /\ calls' = calls + 1
  /\ UNCHANGED << pipelineVars, concVars, clientVars, backendVars >>

GetTaskStatus(t, fault) ==
  /\ calls < MaxCalls
  /\ LET r == get_task_status(task_status, t, fault)
     IN last' = [op |-> "get_task_status", task_id |-> t, status |-> "",
                 raised |-> r.raised, faults |-> << fault >>,
                 inserted |-> 0, updates |-> << >>, lost |-> FALSE,
                 before |-> task_status, result |-> r.result]
  /\ calls' = calls + 1
  /\ UNCHANGED << task_status, now, pipelineVars, concVars, clientVars,
                  backendVars >>

NextTracker ==
  \/ \E t \in TaskIds, f1 \in Faults, f2 \in Faults : AddTask(t, f1, f2)
  \/ \E t \in TaskIds, s \in TaskStatus, f \in Faults : UpdateTask(t, s, f)
  \/ \E t \in TaskIds, f \in Faults : GetTaskStatus(t, f)

SpecTracker == Init /\ [][NextTracker]_vars


\* ---------------------------------------------------------------------------
\* The Vector Search backend as api/common/ai_platform_client.py uses it:
\* the index endpoints it lists, each with its deployed indexes, and the
\* indexes.  A resource is named by the backend when it is created.
\* ---------------------------------------------------------------------------
_DEFAULT_INDEX_DISPLAY_NAME == "embedding_index"
_DEFAULT_INDEX_ENDPOINT_DISPLAY_NAME == "embedding_index_endpoint"

\* the endpoint MatchingEngineIndexEndpoint.create makes: nothing deployed
Endpoint(name, display_name) ==
  [name |-> name, display_name |-> display_name, deployed_indexes |-> << >>]

\* what a request to the backend raises when it fails
BackendError == "ServiceUnavailable"

\* mutant: an endpoint that bears the display name is returned, if any
create_embeddings_index_endpoint_FindOrCreate(endpoints, created, display_name) ==
  IF \E i \in 1..Len(endpoints) : endpoints[i].display_name = display_name
  THEN [endpoints |-> endpoints, created |-> created,
        returned |->
          endpoints[CHOOSE i \in 1..Len(endpoints) :
                      endpoints[i].display_name = display_name].name]
  ELSE [endpoints |-> Append(endpoints, Endpoint(created + 1, display_name)),
        created |-> created + 1, returned |-> created + 1]

\* create_embeddings_index_endpoint: MatchingEngineIndexEndpoint.create is
\* called with the display name, whatever endpoints exist; the new endpoint
\* is returned
create_embeddings_index_endpoint(endpoints, created, display_name) ==
  [endpoints |-> Append(endpoints, Endpoint(created + 1, display_name)),
   created |-> created + 1, returned |-> created + 1]

\* create_embeddings_index: create_tree_ah_index is called with the display
\* name, whatever indexes exist
create_embeddings_index(indexes, display_name) ==
  Append(indexes, display_name)

\* mutant: only the endpoints of the default display name are deleted
delete_all_embedding_index_endpoints_ByName(endpoints, fault) ==
  LET keep == { i \in 1..Len(endpoints) :
                  endpoints[i].display_name #
                    _DEFAULT_INDEX_ENDPOINT_DISPLAY_NAME }
      F[i \in 0..Len(endpoints)] ==
        IF i = 0 THEN << >>
        ELSE IF i \in keep THEN Append(F[i - 1], endpoints[i]) ELSE F[i - 1]
  IN [endpoints |-> F[Len(endpoints)],
      deleted |-> Len(endpoints) - Cardinality(keep),
      raised |-> "none", cleared |-> TRUE]

\* delete_all_embedding_index_endpoints: the endpoints are listed and deleted
\* one after the other with force=True; the cached fields are cleared after
\* the loop.  fault = 0: the listing raises; fault = i: the deletion of the
\* i-th endpoint listed raises; fault > Len(endpoints): no request raises
delete_all_embedding_index_endpoints(endpoints, fault) ==
  LET n == Len(endpoints)
      deleted == IF fault > n THEN n ELSE IF fault = 0 THEN 0 ELSE fault - 1
  IN [endpoints |-> SubSeq(endpoints, deleted + 1, n),
      deleted |-> deleted,
      raised |-> IF fault > n THEN "none" ELSE BackendError,
      cleared |-> fault > n]

\* ---------------------------------------------------------------------------
\* The pipeline job: generate_taxonomy_embeddings.py runs
\* setup_vector_search_endpoint_from_spreadsheet_data, which constructs a
\* TaxonomyService and calls create_taxonomy_embeddings_index_endpoint.
\* Each call of a collaborator returns or raises; each tracker request
\* succeeds or meets a fault.  The /task_status route polls meanwhile.
\* ---------------------------------------------------------------------------
Ev(kind, arg) == [kind |-> kind, arg |-> arg]

\* a tracker update of the run inside the try block: on success go to next,
\* on PostgresClientError to the except clause
TrackerUpdate(s, fault, next) ==
  LET r == update_task(task_status, task_id, s, now, fault)
  IN /\ task_status' = r.table
     /\ IF r.raised = "none"
        THEN /\ events' = events \o << Ev("update", s), Ev("commit", s) >>
             /\ pc' = next
             /\ UNCHANGED failedStep
        ELSE /\ events' = events \o << Ev("update", s), Ev("raise", pc) >>
             /\ pc' = "except"
             /\ failedStep' = pc
     /\ last' = NoCall
     /\ UNCHANGED << now, calls, task_id, runs, concVars, clientVars,
                     backendVars >>

\* mutant: a collaborator's error is logged and the run goes on
Work_Continue(stage, ok, next) ==
  /\ IF ok
     THEN /\ events' = Append(events, Ev("work", stage))
          /\ UNCHANGED failedStep
     ELSE /\ events' = events \o << Ev("work", stage), Ev("raise", pc) >>
          /\ failedStep' = pc
  /\ pc' = next
  /\ last' = NoCall
  /\ UNCHANGED << task_status, now, calls, task_id, runs, concVars,
                  clientVars >>

\* a collaborator call of the run inside the try block
Work(stage, ok, next) ==
  /\ IF ok
     THEN /\ events' = Append(events, Ev("work", stage))
          /\ pc' = next
          /\ UNCHANGED failedStep
     ELSE /\ events' = events \o << Ev("work", stage), Ev("raise", pc) >>
          /\ pc' = "except"
          /\ failedStep' = pc
  /\ last' = NoCall
  /\ UNCHANGED << task_status, now, calls, task_id, runs, concVars,
                  clientVars >>

\* __main__: the job starts with TASK_ID = t (the clock of the pipeline has
\* the granularity of a job: it ticks when a job starts)
StartJob(t) ==
  /\ pc \in {"idle", "returned", "exited"}
  /\ runs < MaxRuns
  /\ pc' = "setup"
  /\ task_id' = t
  /\ runs' = runs + 1
  /\ events' = << >>
  /\ failedStep' = "none"
  /\ now' = now + 1
  /\ last' = NoCall
  /\ restarted' = FALSE
  /\ exit_code' = << >>
  /\ UNCHANGED << task_status, calls, concVars, embedVars, describeVars,
                  classifyVars, deployVars, indexVars, corpusVars, cronVars,
                  overlapVars, backendVars >>

\* setup_vector_search_endpoint_from_spreadsheet_data: the clients are
\* constructed and the tables created, outside the try block
SetupClients(ok) ==
  /\ pc = "setup"
  /\ IF ok
     THEN pc' = "construct" /\ UNCHANGED << events, failedStep >>
     ELSE /\ pc' = "exited"
          /\ events' = Append(events, Ev("raise", pc))
          /\ failedStep' = pc
  /\ last' = NoCall
  /\ UNCHANGED << task_status, now, calls, task_id, runs, concVars,
                  clientVars, backendVars >>

\* TaxonomyService.__init__, outside the try block: authorize the sheets
\* client, then add_task(task_id)
Construct(authOk, faultInsert, faultUpdate) ==
  /\ pc = "construct"
  /\ IF ~authOk
     THEN /\ pc' = "exited"
          /\ events' = Append(events, Ev("raise", "auth"))
          /\ failedStep' = "auth"
          /\ UNCHANGED task_status
     ELSE LET r == add_task(task_status, task_id, now,
                            faultInsert, faultUpdate)
          IN /\ task_status' = r.table
             /\ IF r.raised = "none"
                THEN /\ events' = events \o
                          << Ev("add", "STARTED"), Ev("commit", "STARTED") >>
                     /\ pc' = "read"
                     /\ UNCHANGED failedStep
                ELSE /\ events' = events \o
                          << Ev("add", "STARTED"), Ev("raise", "add") >>
                     /\ pc' = "exited"
                     /\ failedStep' = "add"
  /\ last' = NoCall
  /\ UNCHANGED << now, calls, task_id, runs, concVars, clientVars,
                  backendVars >>

\* _get_taxonomy_from_spreadsheet
ReadSpreadsheet(ok) ==
  /\ pc = "read"
  /\ Work("read", ok, "mark_getting")
  /\ UNCHANGED backendVars

\* _add_embeddings_to_taxonomy: update_task, then get_embeddings_batch
MarkGettingEmbeddings(fault) ==
  pc = "mark_getting"
    /\ TrackerUpdate("IN_PROGRESS_GETTING_EMBEDDINGS", fault, "embed")

GetEmbeddings(ok) ==
  /\ pc = "embed"
  /\ Work("embed", ok, "mark_writing")
  /\ UNCHANGED backendVars

\* mutant: the status of the stage is not written before the corpus write
MarkWritingEmbeddings_Skipped(fault) ==
  /\ pc = "mark_writing"
  /\ pc' = "write"
  /\ last' = NoCall
  /\ UNCHANGED << task_status, now, calls, task_id, runs, events, failedStep,
                  concVars, clientVars, backendVars >>

MarkWritingEmbeddings(fault) ==
  pc = "mark_writing"
    /\ TrackerUpdate("IN_PROGRESS_WRITING_EMBEDDINGS_TO_GCS", fault, "write")

\* mutant: the teardown follows the write, before the next status is written
WriteTaxonomyEmbeddings_ThenTeardown(ok) ==
  /\ pc = "write"
  /\ Work("write", ok, "teardown")
  /\ UNCHANGED backendVars

\* storage_client.write_taxonomy_embeddings
WriteTaxonomyEmbeddings(ok) ==
  /\ pc = "write"
  /\ Work("write", ok, "mark_index")
  /\ UNCHANGED backendVars

\* mutant: the run goes from the status update straight to the index
MarkCreatingIndex_NoTeardown(fault) ==
  pc = "mark_index"
    /\ TrackerUpdate("IN_PROGRESS_CREATING_EMBEDDINGS_INDEX", fault, "index")

MarkCreatingIndex(fault) ==
  pc = "mark_index"
    /\ TrackerUpdate("IN_PROGRESS_CREATING_EMBEDDINGS_INDEX", fault,
                     "teardown")

\* mutant: the run goes on to the index without deleting any endpoint
DeleteAllEndpoints_Skipped(fault) ==
  /\ pc = "teardown"
  /\ Work("teardown", fault > Len(backend_endpoints), "index")
  /\ UNCHANGED backendVars

\* ai_platform_client.delete_all_embedding_index_endpoints (the cached
\* fields it clears belong to the client of the job, which no later step
\* of the run reads)
DeleteAllEndpoints(fault) ==
  /\ pc = "teardown"
  /\ LET r == delete_all_embedding_index_endpoints(backend_endpoints, fault)
     IN /\ Work("teardown", r.raised = "none", "index")
        /\ backend_endpoints' = r.endpoints
  /\ UNCHANGED << backend_indexes, endpoints_created >>

\* ai_platform_client.create_embeddings_index
CreateIndex(ok) ==
  /\ pc = "index"
  /\ Work("index", ok, "mark_endpoint")
  /\ backend_indexes' =
       IF ok
       THEN create_embeddings_index(backend_indexes,
                                    _DEFAULT_INDEX_DISPLAY_NAME)
       ELSE backend_indexes
  /\ UNCHANGED << backend_endpoints, endpoints_created >>

MarkCreatingEndpoint(fault) ==
  pc = "mark_endpoint"
    /\ TrackerUpdate("IN_PROGRESS_CREATING_EMBEDDINGS_INDEX_ENDPOINT", fault,
                     "endpoint")

\* ai_platform_client.create_embeddings_index_endpoint
CreateEndpoint(ok) ==
  /\ pc = "endpoint"
  /\ Work("endpoint", ok, "mark_deploying")
  /\ LET r == create_embeddings_index_endpoint(
                backend_endpoints, endpoints_created,
                _DEFAULT_INDEX_ENDPOINT_DISPLAY_NAME)
     IN IF ok
        THEN /\ backend_endpoints' = r.endpoints
             /\ endpoints_created' = r.created
        ELSE UNCHANGED << backend_endpoints, endpoints_created >>
  /\ UNCHANGED backend_indexes

\* mutant: the terminal status is written where the deploy status belongs
MarkDeploying_Early(fault) ==
  pc = "mark_deploying" /\ TrackerUpdate("SUCCEEDED", fault, "deploy")

MarkDeploying(fault) ==
  pc = "mark_deploying"
    /\ TrackerUpdate("IN_PROGRESS_DEPLOYING_EMBEDDINGS_INDEX_TO_ENDPOINT",
                     fault, "deploy")

\* ai_platform_client.deploy_embedding_index_to_endpoint
DeployIndex(ok) ==
  /\ pc = "deploy"
  /\ Work("deploy", ok, "mark_succeeded")
  /\ UNCHANGED backendVars

\* mutant: the run returns without writing SUCCEEDED
MarkSucceeded_Skipped(fault) ==
  /\ pc = "mark_succeeded"
  /\ pc' = "returned"
  /\ last' = NoCall
  /\ UNCHANGED << task_status, now, calls, task_id, runs, events, failedStep,
                  concVars, clientVars, backendVars >>

\* the last statement of the try block; the function returns after it
MarkSucceeded(fault) ==
  pc = "mark_succeeded" /\ TrackerUpdate("SUCCEEDED", fault, "returned")

\* mutant: the except clause logs the error and records nothing
RecordFailed_Swallow(fault) ==
  /\ pc = "except"
  /\ pc' = "returned"
  /\ last' = NoCall
  /\ UNCHANGED << task_status, now, calls, task_id, runs, events, failedStep,
                  concVars, clientVars, backendVars >>

\* except Exception: update_task(task_id, FAILED); a PostgresClientError
\* raised here leaves the function and __main__ exits with 1
RecordFailed(fault) ==
  /\ pc = "except"
  /\ LET r == update_task(task_status, task_id, "FAILED", now, fault)
     IN /\ task_status' = r.table
        /\ IF r.raised = "none"
           THEN /\ events' = events \o
                     << Ev("update", "FAILED"), Ev("commit", "FAILED") >>
                /\ pc' = "returned"
           ELSE /\ events' = events \o
                     << Ev("update", "FAILED"), Ev("raise", "except") >>
                /\ pc' = "exited"
  /\ last' = NoCall
  /\ UNCHANGED << now, calls, task_id, runs, failedStep, concVars,
                  clientVars, backendVars >>

\* the exception that left setup_vector_search_endpoint_from_spreadsheet_data:
\* an error of the client constructors, of google.auth.default in
\* TaxonomyService.__init__, or the PostgresClientError of add_task or of
\* the update to FAILED; "none" when the function returned
EscapedError ==
  IF pc # "exited" THEN "none"
  ELSE LET raise == events[Len(events)].arg
       IN IF raise = "setup" THEN "Exception"
          ELSE IF raise = "auth" THEN "DefaultCredentialsError"
          ELSE "PostgresClientError"

\* mutant: the service is restarted only after a run without a failed step
RestartOrExit_OnSuccessOnly(restart_ok) ==
  /\ pc \in {"returned", "exited"}
  /\ exit_code = << >>
  /\ IF pc = "returned" /\ failedStep = "none"
     THEN /\ restarted' = TRUE
          /\ exit_code' = IF restart_ok THEN << 0 >> ELSE << 1 >>
     ELSE /\ restarted' = FALSE
          /\ exit_code' = IF pc = "returned" THEN << 0 >> ELSE << 1 >>
  /\ last' = NoCall
  /\ UNCHANGED << task_status, now, calls, pipelineVars, concVars,
                  embedVars, describeVars, classifyVars, deployVars,
                  indexVars, corpusVars, cronVars, overlapVars,
                  backendVars >>

\* __main__ after the setup function: when it returned,
\* restart_cloud_run_service is called (an error it raises is not caught)
\* and the process ends; when an exception left it, the except clauses for
\* GetTaxonomyError and PostgresClientError call sys.exit(1), and any other
\* exception ends the process uncaught, with code 1 as well
RestartOrExit(restart_ok) ==
  /\ pc \in {"returned", "exited"}
  /\ exit_code = << >>
  /\ IF pc = "returned"
     THEN /\ restarted' = TRUE
          /\ exit_code' = IF restart_ok THEN << 0 >> ELSE << 1 >>
     ELSE /\ restarted' = FALSE
          /\ exit_code' = << 1 >>
  /\ last' = NoCall
  /\ UNCHANGED << task_status, now, calls, pipelineVars, concVars,
                  embedVars, describeVars, classifyVars, deployVars,
                  indexVars, corpusVars, cronVars, overlapVars,
                  backendVars >>

\* main.get_task_status: the /task_status/{task_id} route
Poll(t, fault) ==
  /\ LET r == get_task_status(task_status, t, fault)
     IN last' = [op |-> "get_task_status", task_id |-> t, status |-> "",
                 raised |-> r.raised, faults |-> << fault >>,
                 inserted |-> 0, updates |-> << >>, lost |-> FALSE,
                 before |-> task_status, result |-> r.result]
  /\ UNCHANGED << task_status, now, calls, pc, task_id, runs, events,
                  failedStep, concVars, clientVars, backendVars >>

RunStep ==
  \/ \E ok \in BOOLEAN : SetupClients(ok)
  \/ \E ok \in BOOLEAN, f1 \in Faults, f2 \in Faults : Construct(ok, f1, f2)
  \/ \E ok \in BOOLEAN : ReadSpreadsheet(ok)
  \/ \E f \in Faults : MarkGettingEmbeddings(f)
  \/ \E ok \in BOOLEAN : GetEmbeddings(ok)
  \/ \E f \in Faults : MarkWritingEmbeddings(f)
  \/ \E ok \in BOOLEAN : WriteTaxonomyEmbeddings(ok)
  \/ \E f \in Faults : MarkCreatingIndex(f)
  \/ \E fault \in 0..(Len(backend_endpoints) + 1) :
       DeleteAllEndpoints(fault)
  \/ \E ok \in BOOLEAN : CreateIndex(ok)
  \/ \E f \in Faults : MarkCreatingEndpoint(f)
  \/ \E ok \in BOOLEAN : CreateEndpoint(ok)
  \/ \E f \in Faults : MarkDeploying(f)
  \/ \E ok \in BOOLEAN : DeployIndex(ok)
  \/ \E f \in Faults : MarkSucceeded(f)
  \/ \E f \in Faults : RecordFailed(f)

NextPipeline ==
  \/ \E t \in TaskIds : StartJob(t)
  \/ RunStep
  \/ \E t \in TaskIds, f \in Faults : Poll(t, f)

SpecPipeline == Init /\ [][NextPipeline]_vars

\* a started run is scheduled until it returns or exits
SpecPipelineFair == SpecPipeline /\ WF_vars(RunStep)

\* the processes of the job, one after the other: __main__ calls the setup
\* function and, after it, restarts the classify service or exits; the next
\* process starts when the one before has ended
NextEntry ==
  \/ /\ pc = "idle" \/ exit_code # << >>
     /\ \E t \in TaskIds : StartJob(t)
  \/ RunStep
  \/ \E restart_ok \in BOOLEAN : RestartOrExit(restart_ok)

SpecEntry == Init /\ [][NextEntry]_vars

\* a process that has started runs until it ends
SpecEntryFair ==
  SpecEntry
    /\ WF_vars(RunStep \/ \E restart_ok \in BOOLEAN :
                            RestartOrExit(restart_ok))


\* ---------------------------------------------------------------------------
\* Two callers inside add_task at the same time (two jobs started with the
\* same TASK_ID).  The INSERT with its commit and the UPDATE with its commit
\* are each one transaction of the store; nothing else orders the callers.
\* ---------------------------------------------------------------------------
Callers == 1..2
Other(p) == 3 - p
InFlight(p) == cpc[p] \in {"insert", "fallback"}

\* a caller enters add_task(t); callers that overlapped finish as a pair
BeginAdd(p, t) ==
  /\ cpc[p] \in {"idle", "done"}
  /\ cadds[p] < MaxAdds
  /\ ~(overlap /\ InFlight(Other(p)))
  /\ cpc' = [cpc EXCEPT ![p] = "insert"]
  /\ ctask' = [ctask EXCEPT ![p] = t]
  /\ clost' = [clost EXCEPT ![p] = FALSE]
  /\ craised' = [craised EXCEPT ![p] = "none"]
  /\ cfault' = [cfault EXCEPT ![p] = FALSE]
  /\ cadds' = [cadds EXCEPT ![p] = @ + 1]
  /\ IF InFlight(Other(p)) /\ ctask[Other(p)] = t
     THEN /\ overlap' = TRUE
          /\ rowBefore' = [rowBefore EXCEPT ![p] = rowBefore[Other(p)]]
     ELSE /\ overlap' = FALSE
          /\ rowBefore' = [rowBefore EXCEPT
                             ![p] = PrimaryKeyViolated(task_status, t)]
  /\ UNCHANGED << trackerVars, pipelineVars, clientVars, backendVars >>

\* add_task: the try block (INSERT, commit) and the choice of except clause
InsertStep(p, fault) ==
  /\ cpc[p] = "insert"
  /\ LET ins == add_task_insert(task_status, ctask[p], now, fault)
     IN /\ task_status' = ins.table
        /\ IF ins.err = "none"
           THEN /\ cpc' = [cpc EXCEPT ![p] = "done"]
                /\ UNCHANGED << clost, craised >>
           ELSE IF IsInstance(ins.err, "IntegrityError")
           THEN /\ cpc' = [cpc EXCEPT ![p] = "fallback"]
                /\ clost' = [clost EXCEPT ![p] = TRUE]
                /\ UNCHANGED craised
           ELSE /\ cpc' = [cpc EXCEPT ![p] = "done"]
                /\ craised' = [craised EXCEPT
                                 ![p] = Translate(ins.err, AddTaskCatches)]
                /\ UNCHANGED clost
  /\ cfault' = [cfault EXCEPT ![p] = (fault # "none")]
  /\ now' = now + 1
  /\ UNCHANGED << last, calls, pipelineVars, clientVars, backendVars,
                  ctask, cadds, overlap,
                  rowBefore >>

\* add_task: except IntegrityError: update_task(task_id, STARTED)
FallbackStep(p, fault) ==
  /\ cpc[p] = "fallback"
  /\ LET r == update_task(task_status, ctask[p], "STARTED", now, fault)
     IN /\ task_status' = r.table
        /\ craised' = [craised EXCEPT ![p] = r.raised]
  /\ cpc' = [cpc EXCEPT ![p] = "done"]
  /\ cfault' = [cfault EXCEPT ![p] = (fault # "none")]
  /\ now' = now + 1
  /\ UNCHANGED << last, calls, pipelineVars, clientVars, backendVars,
                  ctask, clost, cadds,
                  overlap,
                  rowBefore >>

NextConc ==
  \/ \E p \in Callers, t \in TaskIds : BeginAdd(p, t)
  \/ \E p \in Callers, f \in Faults : InsertStep(p, f)
  \/ \E p \in Callers, f \in Faults : FallbackStep(p, f)

SpecConc == Init /\ [][NextConc]_vars

\* ---------------------------------------------------------------------------
\* The batch embedder: VertexClient.get_embeddings_batch of
\* api/common/vertex_client.py, called with a list of texts and a list of
\* (media path, description) pairs. The embeddings provider answers each batch
\* with a list of vectors; vector j of the answer to call b is Vector(b, j).
\* ---------------------------------------------------------------------------
_MAX_BATCH_SIZE == 200

\* the i-th text of a request
Text(i) == Str(i, "")
\* the j-th media file of a request, and a description generated for it
Uri(j) == Str(1000 + j, "jpeg")
Description(j) == Str(2000 + j, "")

\* the vector at position j (0-based) of the provider's answer to call b
Vector(b, j) == << b, j >>

\* lengths of the text lists: around zero and around every batch boundary
Sizes ==
  {0, 1, 2} \cup
  { _MAX_BATCH_SIZE * k + d : k \in 1..MaxBatches, d \in {-1, 0, 1} }

\* text lists: absent, distinct texts, and texts whose last repeats the first
TextLists ==
  {None} \cup
  { Some([i \in 1..n |-> Text(i)]) : n \in Sizes } \cup
  { Some([i \in 1..n |-> IF i = n THEN Text(1) ELSE Text(i)]) :
      n \in Sizes \ {0, 1} }

\* media lists: absent, empty, distinct files, and one file described twice
MediaLists ==
  { None,
    Some(<< >>),
    Some(<< << Uri(1), Description(1) >> >>),
    Some(<< << Uri(1), Description(1) >>, << Uri(2), Description(2) >> >>),
    Some(<< << Uri(1), Description(1) >>, << Uri(1), Description(2) >> >>) }

\* what the provider does with a batch: one vector per text, one too few,
\* one too many, or an error
ProviderAnswers == {"exact", "short", "long", "error"}

\* the elements of text_list are strings and those of media_descriptions
\* tuples: a string is its own key, a tuple is (key, value)
_build_input_object_for_embeddings(tl, md) ==
  LET texts == IF tl.none THEN << >> ELSE tl.list
      medias == IF md.none THEN << >> ELSE md.list
  IN [output_keys |-> texts \o [i \in 1..Len(medias) |-> medias[i][1]],
      text_values |-> texts \o [i \in 1..Len(medias) |-> medias[i][2]]]

\* text_list[batch_start:batch_end] of a 0-based list, and batch_end
_get_text_list_batch(list, start, batch_size) ==
  LET batch_end == start + batch_size
      stop == IF batch_end <= Len(list) THEN batch_end ELSE Len(list)
  IN [batch |-> SubSeq(list, start + 1, stop), next_batch_index |-> batch_end]

\* the answer of the provider to call b on a batch of m texts
get_embeddings(b, m, answer) ==
  LET r == CASE answer = "short" -> m - 1
             [] answer = "long" -> m + 1
             [] OTHER -> m
  IN [j \in 1..r |-> Vector(b, j - 1)]

\* a call of the provider as the log keeps it: the batch sent, whether the
\* provider raised, and the number of vectors of its answer
ProviderCall(batch, raised, n) ==
  [texts |-> batch, raised |-> raised, returned |-> n]

\* the call begins: the input object is built, the loop variables are set
BeginEmbeddings(tl, md) ==
  LET input == _build_input_object_for_embeddings(tl, md)
  IN /\ epc' = "loop"
     /\ text_list' = tl
     /\ media_descriptions' = md
     /\ output_keys' = input.output_keys
     /\ text_values' = input.text_values
     /\ batch_start' = 0
     /\ embeddings_vectors' = << >>
     /\ batches' = << >>
     /\ embeddings' = EmptyDict
     /\ eraised' = "none"

\* a client calls get_embeddings_batch(text_list, media_descriptions)
GetEmbeddingsBatch(tl, md) ==
  /\ epc = "idle"
  /\ dpc = "idle"
  /\ kpc \in {"idle", "returned", "raised"}
  /\ BeginEmbeddings(tl, md)
  /\ UNCHANGED << serverVars, publishVars, describeVars, classifyVars,
                  deployVars >>

\* mutant: the batch begins one position after the end of the previous one
EmbedBatch_SkipOne(answer) ==
  /\ epc = "loop"
  /\ batch_start < Len(text_values)
  /\ LET b == _get_text_list_batch(text_values, batch_start + 1,
                                   _MAX_BATCH_SIZE)
         vectors == get_embeddings(Len(batches), Len(b.batch), answer)
     IN IF answer = "error"
        THEN /\ batches' = Append(batches, ProviderCall(b.batch, TRUE, 0))
             /\ epc' = "raised"
             /\ eraised' = "GoogleAPIError"
             /\ UNCHANGED << embeddings_vectors, batch_start >>
        ELSE /\ batches' =
                  Append(batches, ProviderCall(b.batch, FALSE, Len(vectors)))
             /\ embeddings_vectors' = embeddings_vectors \o vectors
             /\ batch_start' = b.next_batch_index
             /\ UNCHANGED << epc, eraised >>
  /\ UNCHANGED << text_list, media_descriptions, output_keys, text_values,
                  embeddings >>
  /\ UNCHANGED << serverVars, publishVars, describeVars, classifyVars,
                  deployVars >>

\* one turn of the while loop: the next batch is sent to the provider and
\* every vector of the answer is appended
EmbedBatch(answer) ==
  /\ epc = "loop"
  /\ batch_start < Len(text_values)
  /\ LET b == _get_text_list_batch(text_values, batch_start, _MAX_BATCH_SIZE)
         vectors == get_embeddings(Len(batches), Len(b.batch), answer)
     IN IF answer = "error"
        THEN /\ batches' = Append(batches, ProviderCall(b.batch, TRUE, 0))
             /\ epc' = "raised"
             /\ eraised' = "GoogleAPIError"
             /\ UNCHANGED << embeddings_vectors, batch_start >>
        ELSE /\ batches' =
                  Append(batches, ProviderCall(b.batch, FALSE, Len(vectors)))
             /\ embeddings_vectors' = embeddings_vectors \o vectors
             /\ batch_start' = b.next_batch_index
             /\ UNCHANGED << epc, eraised >>
  /\ UNCHANGED << text_list, media_descriptions, output_keys, text_values,
                  embeddings >>
  /\ UNCHANGED << serverVars, publishVars, describeVars, classifyVars,
                  deployVars >>

\* mutant: the media items are keyed by their description
EmbedReturn_KeyedByValue ==
  /\ epc = "loop"
  /\ batch_start >= Len(text_values)
  /\ embeddings' = dict(zip(text_values, embeddings_vectors))
  /\ epc' = "returned"
  /\ UNCHANGED << text_list, media_descriptions, output_keys, text_values,
                  batch_start, embeddings_vectors, batches, eraised >>
  /\ UNCHANGED << serverVars, publishVars, describeVars, classifyVars,
                  deployVars >>

\* the loop is over: return dict(zip(output_keys, embeddings_vectors))
EmbedReturn ==
  /\ epc = "loop"
  /\ batch_start >= Len(text_values)
  /\ embeddings' = dict(zip(output_keys, embeddings_vectors))
  /\ epc' = "returned"
  /\ UNCHANGED << text_list, media_descriptions, output_keys, text_values,
                  batch_start, embeddings_vectors, batches, eraised >>
  /\ UNCHANGED << serverVars, publishVars, describeVars, classifyVars,
                  deployVars >>

NextEmbed ==
  \/ /\ epc = "idle"
     /\ \E tl \in TextLists, md \in MediaLists : GetEmbeddingsBatch(tl, md)
  \/ \E answer \in ProviderAnswers : EmbedBatch(answer)
  \/ EmbedReturn

SpecEmbed == Init /\ [][NextEmbed]_vars

\* ---------------------------------------------------------------------------
\* The media describer: VertexClient.generate_descriptions_from_medias of
\* api/common/vertex_client.py. executor.map submits one call of
\* _generate_descriptions_from_media per media path; the calls run in the
\* threads of the pool, the with block ends when all of them are over, and
\* the results are then read in the order of the paths.
\* ---------------------------------------------------------------------------
SUPPORTED_VIDEO_TYPES ==
  {"x-flv", "mov", "mpeg", "mpegps", "mpg", "mp4", "webm", "wmv", "3gpp"}
SUPPORTED_IMAGE_TYPES == {"jpeg", "jpg", "png"}
SUPPORTED_MEDIA_TYPES == SUPPORTED_VIDEO_TYPES \cup SUPPORTED_IMAGE_TYPES

\* tenacity.stop_after_attempt(10)
stop_after_attempt == 10

\* os.path.splitext(path)[1].replace('.', '')
file_extension(path) == path[2]

\* the media paths a request draws from: an image, a video and a document
MediaPaths == { Uri(1), Str(1002, "mp4"), Str(1003, "json") }

\* the text the generative model answers for a media path, stripped
GeneratedText(path) == Str(1000 + path[1], "")

\* what generate_content does on the attempts of one call, in order: it
\* raises ResourceExhausted f times and then answers or raises another error
Responses(f, final) ==
  [a \in 1..(stop_after_attempt + 1) |->
     IF a <= f THEN "ResourceExhausted" ELSE final]
FailureCounts ==
  {0, 1, 2, stop_after_attempt - 1, stop_after_attempt, stop_after_attempt + 1}
ResponseScripts ==
  { Responses(f, final) :
      f \in FailureCounts, final \in {"ok", "InternalServerError"} }

\* mutant: an extension outside the two lists is taken for an image
_get_file_type_from_extension_Lenient(extension) ==
  IF extension \in SUPPORTED_VIDEO_TYPES THEN "video" ELSE "image"

\* the file type, or the ValueError raised for an unsupported extension
_get_file_type_from_extension(extension) ==
  IF extension \in SUPPORTED_IMAGE_TYPES THEN "image"
  ELSE IF extension \in SUPPORTED_VIDEO_TYPES THEN "video"
  ELSE "ValueError"

\* mutant: every exception is retried
retry_if_exception_type_Any(e) == TRUE

\* retry=tenacity.retry_if_exception_type(ResourceExhausted)
retry_if_exception_type(e) == e = "ResourceExhausted"

\* one attempt, the body of _generate_descriptions_from_media: what it raises
\* and whether generate_content was called
Attempt(path, response) ==
  IF _get_file_type_from_extension(file_extension(path)) = "ValueError"
  THEN [raised |-> "ValueError", called |-> 0]
  ELSE [raised |-> IF response = "ok" THEN "none" ELSE response, called |-> 1]

\* the call made for a path that has not begun
Queued ==
  [state |-> "queued", responses |-> << >>, calls |-> 0, raised |-> "none",
   value |-> << >>]

\* tenacity.retry around the body: attempt a, after `made` generate_content
\* calls. reraise=False: when the attempts are used up, RetryError is raised
RECURSIVE Retrying(_, _, _, _)
Retrying(path, responses, a, made) ==
  LET r == Attempt(path, responses[a])
      n == made + r.called
  IN IF r.raised = "none"
     THEN [state |-> "returned", responses |-> responses, calls |-> n,
           raised |-> "none", value |-> << path, GeneratedText(path) >>]
     ELSE IF ~retry_if_exception_type(r.raised)
     THEN [state |-> "raised", responses |-> responses, calls |-> n,
           raised |-> r.raised, value |-> << >>]
     ELSE IF a >= stop_after_attempt
     THEN [state |-> "raised", responses |-> responses, calls |-> n,
           raised |-> "RetryError", value |-> << >>]
     ELSE Retrying(path, responses, a + 1, n)

_generate_descriptions_from_media(path, responses) ==
  Retrying(path, responses, 1, 0)

\* executor.map: one call per media path is submitted
BeginDescriptions(paths) ==
  /\ dpc' = "running"
  /\ media_paths' = paths
  /\ generation_responses' = [i \in 1..Len(paths) |-> Queued]
  /\ descriptions' = << >>
  /\ draised' = "none"

\* the lists of at most n strings of S
RECURSIVE Lists(_, _)
Lists(S, n) ==
  IF n = 0 THEN { << >> }
  ELSE LET shorter == Lists(S, n - 1)
       IN shorter \cup
          { Append(l, p) : l \in { q \in shorter : Len(q) = n - 1 },
                           p \in S }

\* a client calls generate_descriptions_from_medias(media_paths)
GenerateDescriptionsFromMedias(paths) ==
  /\ dpc = "idle"
  /\ kpc = "idle"
  /\ BeginDescriptions(paths)
  /\ UNCHANGED << serverVars, publishVars, embedVars, classifyVars,
                  deployVars >>

\* a thread of the pool runs the call of one media path, retries included
RunMedia(i, responses) ==
  /\ dpc = "running"
  /\ i \in DOMAIN generation_responses
  /\ generation_responses[i].state = "queued"
  /\ generation_responses' =
       [generation_responses EXCEPT
          ![i] = _generate_descriptions_from_media(media_paths[i], responses)]
  /\ UNCHANGED << dpc, media_paths, descriptions, draised >>
  /\ UNCHANGED << serverVars, publishVars, embedVars, classifyVars,
                  deployVars >>

\* the positions of the calls that raised
Failed(responses) ==
  { i \in DOMAIN responses : responses[i].state = "raised" }

\* the least element of a non-empty set of numbers
Least(S) == CHOOSE i \in S : \A j \in S : i <= j

\* mutant: the paths whose call raised are left out of the list returned
CollectDescriptions_DropFailed ==
  /\ dpc = "running"
  /\ \A i \in DOMAIN generation_responses :
       generation_responses[i].state # "queued"
  /\ LET IsReturned(r) == r.state = "returned"
         kept == SelectSeq(generation_responses, IsReturned)
     IN /\ dpc' = "returned"
        /\ descriptions' = [i \in DOMAIN kept |-> kept[i].value]
        /\ UNCHANGED draised
  /\ UNCHANGED << media_paths, generation_responses >>
  /\ UNCHANGED << serverVars, publishVars, embedVars, classifyVars,
                  deployVars >>

\* the with block is left when every call is over; the results are read in
\* the order of the paths, and reading the result of a call that raised
\* raises its exception
CollectDescriptions ==
  /\ dpc = "running"
  /\ \A i \in DOMAIN generation_responses :
       generation_responses[i].state # "queued"
  /\ IF Failed(generation_responses) # {}
     THEN /\ dpc' = "raised"
          /\ draised' =
               generation_responses[Least(Failed(generation_responses))].raised
          /\ UNCHANGED descriptions
     ELSE /\ dpc' = "returned"
          /\ descriptions' =
               [i \in DOMAIN generation_responses |->
                  generation_responses[i].value]
          /\ UNCHANGED draised
  /\ UNCHANGED << media_paths, generation_responses >>
  /\ UNCHANGED << serverVars, publishVars, embedVars, classifyVars,
                  deployVars >>

NextDescribe ==
  \/ /\ dpc = "idle"
     /\ \E paths \in Lists(MediaPaths, MaxMedia) :
          GenerateDescriptionsFromMedias(paths)
  \/ \E i \in 1..MaxMedia, responses \in ResponseScripts :
       RunMedia(i, responses)
  \/ CollectDescriptions

SpecDescribe == Init /\ [][NextDescribe]_vars

\* ---------------------------------------------------------------------------
\* The classification: ClassifyService.classify of
\* api/services/classify_service.py. It validates the media URIs, has the
\* describer describe them, has the embedder embed the texts and the
\* descriptions, queries the index and builds one ClassifyResult per key.
\* ---------------------------------------------------------------------------
\* str.lower() on the extensions the requests use
lower(extension) == IF extension = "PNG" THEN "png" ELSE extension

_has_valid_extension(path) ==
  lower(file_extension(path)) \in SUPPORTED_MEDIA_TYPES

\* the texts and the media URIs the requests draw from: a text may end like
\* a media file, and an extension may be written in upper case
ClassifyTexts == { Text(1), Str(3, "png") }
ClassifyUris == MediaPaths \cup { Str(1004, "PNG") }

TextArgs ==
  {NoArg} \cup { StrArg(t) : t \in ClassifyTexts }
          \cup { ListArg(l) : l \in Lists(ClassifyTexts, MaxTexts) }
MediaArgs ==
  {NoArg} \cup { StrArg(u) : u \in ClassifyUris }
          \cup { ListArg(l) : l \in Lists(ClassifyUris, MaxMedia) }

\* what generate_content does for the media of a classify request
ClassifyScripts ==
  { Responses(0, "ok"), Responses(stop_after_attempt, "ok"),
    Responses(0, "InternalServerError") }

\* [x] if isinstance(x, str) else x
AsList(arg) ==
  CASE arg.kind = "none" -> None
    [] arg.kind = "str" -> Some(<< arg.value >>)
    [] OTHER -> Some(arg.value)

\* the truth value of an Optional[list]: neither None nor empty
Truthy(l) == ~l.none /\ Len(l.list) > 0

\* all([_has_valid_extension(element) for element in media_uris])
AllValid(media_uris) ==
  \A i \in DOMAIN media_uris.list : _has_valid_extension(media_uris.list[i])

\* the matches the index returns for a query vector
Neighbors(vector) == << vector >>

\* mutant: a media result is built without its description
ClassifyResult_NoDescription(key, descs, emb, result, wanted) ==
  IF _has_valid_extension(key)
  THEN [text |-> NULL, media_uri |-> key, categories |-> result,
        media_description |-> NULL,
        embedding |-> IF wanted THEN emb.map[key] ELSE NULL]
  ELSE [text |-> key, media_uri |-> NULL, categories |-> result,
        media_description |-> NULL,
        embedding |-> IF wanted THEN emb.map[key] ELSE NULL]

\* the ClassifyResult of one key of the loop over zip(text_list, results)
ClassifyResult(key, descs, emb, result, wanted) ==
  IF _has_valid_extension(key)
  THEN [text |-> NULL, media_uri |-> key, categories |-> result,
        media_description |-> descs.map[key],
        embedding |-> IF wanted THEN emb.map[key] ELSE NULL]
  ELSE [text |-> key, media_uri |-> NULL, categories |-> result,
        media_description |-> NULL,
        embedding |-> IF wanted THEN emb.map[key] ELSE NULL]

\* mutant: a key is tagged as media only when it has a description
_find_nearest_neighbors_for_text_ByInput(emb, md, wanted, deployed) ==
  LET media_descriptions_dict ==
        IF Truthy(md) THEN dict(md.list) ELSE EmptyDict
      keys == emb.keys
      vectors == [i \in DOMAIN keys |-> emb.map[keys[i]]]
      found == [i \in DOMAIN vectors |-> Neighbors(vectors[i])]
      pairs == zip(keys, found)
      described(key) == key \in DOMAIN media_descriptions_dict.map
  IN IF ~deployed THEN [raised |-> "NotFoundError", results |-> << >>]
     ELSE [raised |-> "none",
           results |->
             [i \in DOMAIN pairs |->
                IF described(pairs[i][1])
                THEN ClassifyResult(pairs[i][1], media_descriptions_dict, emb,
                                    pairs[i][2], wanted)
                ELSE [text |-> pairs[i][1], media_uri |-> NULL,
                      categories |-> pairs[i][2],
                      media_description |-> NULL,
                      embedding |->
                        IF wanted THEN emb.map[pairs[i][1]] ELSE NULL]]]

\* _find_nearest_neighbors_for_text, the index answering one list of matches
\* per vector, or find_neighbors_for_vectors raising NotFoundError because
\* the client resolved no deployed index
_find_nearest_neighbors_for_text(emb, md, wanted, deployed) ==
  LET media_descriptions_dict ==
        IF Truthy(md) THEN dict(md.list) ELSE EmptyDict
      keys == emb.keys
      vectors == [i \in DOMAIN keys |-> emb.map[keys[i]]]
      found == [i \in DOMAIN vectors |-> Neighbors(vectors[i])]
      pairs == zip(keys, found)
      missing == { i \in DOMAIN pairs :
                     /\ _has_valid_extension(pairs[i][1])
                     /\ pairs[i][1] \notin DOMAIN media_descriptions_dict.map }
  IN IF ~deployed THEN [raised |-> "NotFoundError", results |-> << >>]
     ELSE IF missing # {} THEN [raised |-> "KeyError", results |-> << >>]
     ELSE [raised |-> "none",
           results |->
             [i \in DOMAIN pairs |->
                ClassifyResult(pairs[i][1], media_descriptions_dict, emb,
                               pairs[i][2], wanted)]]

\* mutant: the media URIs are not validated
Classify_Unvalidated(text, media_uri, wanted) ==
  /\ kpc = "idle" /\ dpc = "idle" /\ epc = "idle"
  /\ request' = [text |-> text, media_uri |-> media_uri, embeddings |-> wanted]
  /\ kraised' = "none"
  /\ results' = << >>
  /\ LET tl == AsList(text)
         media_uris == AsList(media_uri)
     IN IF ~Truthy(tl) /\ ~Truthy(media_uris)
        THEN /\ kpc' = "returned"
             /\ UNCHANGED << ncalls, describeVars, embedVars >>
        ELSE IF Truthy(media_uris)
        THEN /\ kpc' = "describing"
             /\ ncalls' = [ncalls EXCEPT !.describer = @ + 1]
             /\ BeginDescriptions(media_uris.list)
             /\ UNCHANGED embedVars
        ELSE /\ kpc' = "embedding"
             /\ ncalls' = [ncalls EXCEPT !.embedder = @ + 1]
             /\ BeginEmbeddings(tl, None)
             /\ UNCHANGED describeVars
  /\ UNCHANGED << serverVars, publishVars, deployVars >>

\* mutant: a request without texts and media goes on to the embedder
Classify_NoEarlyReturn(text, media_uri, wanted) ==
  /\ kpc = "idle" /\ dpc = "idle" /\ epc = "idle"
  /\ request' = [text |-> text, media_uri |-> media_uri, embeddings |-> wanted]
  /\ results' = << >>
  /\ LET tl == AsList(text)
         media_uris == AsList(media_uri)
     IN IF Truthy(media_uris) /\ ~AllValid(media_uris)
        THEN /\ kpc' = "raised"
             /\ kraised' = "ValueError"
             /\ UNCHANGED << ncalls, describeVars, embedVars >>
        ELSE IF Truthy(media_uris)
        THEN /\ kpc' = "describing"
             /\ kraised' = "none"
             /\ ncalls' = [ncalls EXCEPT !.describer = @ + 1]
             /\ BeginDescriptions(media_uris.list)
             /\ UNCHANGED embedVars
        ELSE /\ kpc' = "embedding"
             /\ kraised' = "none"
             /\ ncalls' = [ncalls EXCEPT !.embedder = @ + 1]
             /\ BeginEmbeddings(tl, None)
             /\ UNCHANGED describeVars
  /\ UNCHANGED << serverVars, publishVars, deployVars >>

\* a client calls classify(text, media_uri, embeddings): the arguments are
\* made lists and validated; the call raises, returns [] or goes on to its
\* first call, of the describer if there are media and of the embedder if not
Classify(text, media_uri, wanted) ==
  /\ kpc = "idle" /\ dpc = "idle" /\ epc = "idle"
  /\ request' = [text |-> text, media_uri |-> media_uri, embeddings |-> wanted]
  /\ results' = << >>
  /\ LET tl == AsList(text)
         media_uris == AsList(media_uri)
     IN IF Truthy(media_uris) /\ ~AllValid(media_uris)
        THEN /\ kpc' = "raised"
             /\ kraised' = "ValueError"
             /\ UNCHANGED << ncalls, describeVars, embedVars >>
        ELSE IF ~Truthy(tl) /\ ~Truthy(media_uris)
        THEN /\ kpc' = "returned"
             /\ kraised' = "none"
             /\ UNCHANGED << ncalls, describeVars, embedVars >>
        ELSE IF Truthy(media_uris)
        THEN /\ kpc' = "describing"
             /\ kraised' = "none"
             /\ ncalls' = [ncalls EXCEPT !.describer = @ + 1]
             /\ BeginDescriptions(media_uris.list)
             /\ UNCHANGED embedVars
        ELSE /\ kpc' = "embedding"
             /\ kraised' = "none"
             /\ ncalls' = [ncalls EXCEPT !.embedder = @ + 1]
             /\ BeginEmbeddings(tl, None)
             /\ UNCHANGED describeVars
  /\ UNCHANGED << serverVars, publishVars, deployVars >>

\* generate_descriptions_from_medias is over: its exception leaves classify,
\* or get_embeddings_batch(text_list, media_descriptions) is called
ClassifyDescribed ==
  /\ kpc = "describing"
  /\ dpc \in {"returned", "raised"}
  /\ IF dpc = "raised"
     THEN /\ kpc' = "raised"
          /\ kraised' = draised
          /\ UNCHANGED << ncalls, embedVars >>
     ELSE /\ kpc' = "embedding"
          /\ ncalls' = [ncalls EXCEPT !.embedder = @ + 1]
          /\ BeginEmbeddings(AsList(request.text), Some(descriptions))
          /\ UNCHANGED kraised
  /\ UNCHANGED << request, results, describeVars, serverVars, publishVars,
                  deployVars >>

\* get_embeddings_batch is over: its exception leaves classify, or
\* _find_nearest_neighbors_for_text queries the index and builds the results
ClassifyEmbedded(deployed) ==
  /\ kpc = "embedding"
  /\ epc \in {"returned", "raised"}
  /\ IF epc = "raised"
     THEN /\ kpc' = "raised"
          /\ kraised' = eraised
          /\ UNCHANGED << ncalls, results >>
     ELSE LET r == _find_nearest_neighbors_for_text(
                     embeddings, media_descriptions, request.embeddings,
                     deployed)
          IN /\ ncalls' = [ncalls EXCEPT !.index = @ + 1]
             /\ kpc' = IF r.raised = "none" THEN "returned" ELSE "raised"
             /\ kraised' = r.raised
             /\ results' = r.results
  /\ UNCHANGED << request, embedVars, describeVars, serverVars,
                  publishVars, deployVars >>

\* the arguments of a direct call of the embedder by the same client
DirectTextLists == { None, Some(<< >>), Some(<< Text(1) >>) }
DirectMediaLists == { None, Some(<< >>) }

NextClassify ==
  \/ /\ kpc = "idle"
     /\ \E text \in TextArgs, media_uri \in MediaArgs, wanted \in BOOLEAN :
          Classify(text, media_uri, wanted)
  \/ \E i \in 1..MaxMedia, responses \in ClassifyScripts :
       RunMedia(i, responses)
  \/ CollectDescriptions
  \/ ClassifyDescribed
  \/ /\ epc = "idle"
     /\ \E tl \in DirectTextLists, md \in DirectMediaLists :
          GetEmbeddingsBatch(tl, md)
  \/ \E answer \in ProviderAnswers : EmbedBatch(answer)
  \/ EmbedReturn
  \/ \E deployed \in BOOLEAN : ClassifyEmbedded(deployed)

SpecClassify == Init /\ [][NextClassify]_vars

\* ---------------------------------------------------------------------------
\* The index deployment: AiPlatformClient.deploy_embedding_index_to_endpoint
\* of api/common/ai_platform_client.py, called by a client several times.
\* ---------------------------------------------------------------------------
_DEFAULT_INDEX_DEPLOYED_DISPLAY_NAME == "embedding_index_deployed"

\* the display names the calls draw from: the default and another one
DisplayNames == { _DEFAULT_INDEX_DEPLOYED_DISPLAY_NAME, "my_deployed_index" }

\* f'{deployed_index_display_name}_{time_id}'
DeployedIndexId(display_name, time_id) == << display_name, "_", time_id >>

\* what endpoint.deploy_index can raise: the id is already deployed, or else
\* nothing, a RuntimeError (the index is not created yet), a subclass of
\* RuntimeError, or another error of the API
deploy_index(deployed, id) ==
  IF id \in deployed THEN {"AlreadyExists"}
  ELSE {"none", "RuntimeError", "NotImplementedError", "ServiceUnavailable"}

\* mutant: one clause catches every exception and wraps it
DeployExcept_CatchAll(e) == "IndexCreationInProgressError"

\* the except clauses of deploy_embedding_index_to_endpoint: what leaves the
\* function when deploy_index raised e
DeployExcept(e) ==
  IF IsInstance(e, "RuntimeError") THEN "IndexCreationInProgressError"
  ELSE IF IsInstance(e, "AlreadyExists") THEN e
  ELSE e

\* a call: the clock is read, the id is built and passed to deploy_index;
\* the id is recorded on the client only after deploy_index returned
DeployEmbeddingIndexToEndpoint(display_name, time_id, e) ==
  /\ Len(deployments) < MaxDeploys
  /\ time_id \in {time_ns, time_ns + 1}
  /\ LET deployed_index_id == DeployedIndexId(display_name, time_id)
     IN /\ e \in deploy_index(backend_deployed, deployed_index_id)
        /\ time_ns' = time_id
        /\ IF e = "none"
           THEN /\ backend_deployed' =
                     backend_deployed \cup {deployed_index_id}
                /\ embedding_index_deployed_id' = deployed_index_id
           ELSE UNCHANGED << backend_deployed, embedding_index_deployed_id >>
        /\ deployments' =
             Append(deployments,
                    [display_name |-> display_name,
                     time_id |-> time_id,
                     deployed_index_id |-> deployed_index_id,
                     backend |-> e,
                     raised |-> IF e = "none" THEN "none" ELSE DeployExcept(e),
                     recorded |-> embedding_index_deployed_id'])
  /\ UNCHANGED << serverVars, publishVars, embedVars, describeVars,
                  classifyVars >>

NextDeploy ==
  \E display_name \in DisplayNames, time_id \in 1..(MaxDeploys + 1),
     e \in {"none", "RuntimeError", "NotImplementedError",
            "ServiceUnavailable", "AlreadyExists"} :
    DeployEmbeddingIndexToEndpoint(display_name, time_id, e)

SpecDeploy == Init /\ [][NextDeploy]_vars

\* ---------------------------------------------------------------------------
\* The AiPlatformClient of api/common/ai_platform_client.py against the
\* backend: a client is constructed, creates indexes and endpoints, deletes
\* all endpoints and queries for neighbors, while indexes get deployed on
\* the endpoints.
\* ---------------------------------------------------------------------------
\* the display names endpoints are created with: the default and another one
EndpointDisplayNames ==
  { _DEFAULT_INDEX_ENDPOINT_DISPLAY_NAME, "my_endpoint" }

\* the creation times the backend stamps deployed indexes with
CreateTimes == 1..(MaxResources - 1)

\* the lists of vectors a caller queries with
QueryVectors == { << Vector(0, 0) >>, << Vector(0, 0), Vector(0, 1) >> }

\* the index an endpoint name has in the backend's listing, or 0
IndexOf(endpoints, name) ==
  IF \E i \in 1..Len(endpoints) : endpoints[i].name = name
  THEN CHOOSE i \in 1..Len(endpoints) : endpoints[i].name = name
  ELSE 0

\* number of indexes deployed on the endpoints
RECURSIVE DeployedCount(_)
DeployedCount(endpoints) ==
  IF endpoints = << >> THEN 0
  ELSE Len(Head(endpoints).deployed_indexes) + DeployedCount(Tail(endpoints))

\* the resources the backend holds or has created
Resources ==
  endpoints_created + DeployedCount(backend_endpoints) + Len(backend_indexes)

\* the ids of the indexes deployed on the endpoints
DeployedIds(endpoints) ==
  UNION { { endpoints[i].deployed_indexes[j].id :
              j \in 1..Len(endpoints[i].deployed_indexes) } :
          i \in 1..Len(endpoints) }

\* sorted(l, key=lambda c: c.create_time, reverse=True): the sort is stable,
\* items of equal create_time keep their order
sorted_reverse(l) ==
  LET rank(i) ==
        1 + Cardinality({ j \in 1..Len(l) :
                            \/ l[j].create_time > l[i].create_time
                            \/ /\ l[j].create_time = l[i].create_time
                               /\ j < i })
  IN [k \in 1..Len(l) |-> l[CHOOSE i \in 1..Len(l) : rank(i) = k]]

\* _getembedding_index_endpoint: the first endpoint listed that bears the
\* display name, or None
_getembedding_index_endpoint(endpoints, display_name) ==
  LET hits == { i \in 1..Len(endpoints) :
                  endpoints[i].display_name = display_name }
  IN IF hits = {} THEN NoEndpoint ELSE endpoints[Least(hits)].name

\* mutant: the deployed indexes are searched in the order of the listing
_getembedding_index_endpoint_deployed_index_id_Unsorted(endpoints, endpoint, display_name) ==
  IF endpoint = NoEndpoint \/ IndexOf(endpoints, endpoint) = 0
  THEN NoDeployedId
  ELSE LET deployed ==
             endpoints[IndexOf(endpoints, endpoint)].deployed_indexes
           hits == { i \in 1..Len(deployed) :
                       deployed[i].display_name = display_name }
       IN IF hits = {} THEN NoDeployedId ELSE deployed[Least(hits)].id

\* _getembedding_index_endpoint_deployed_index_id: None without an endpoint;
\* else the id of the first deployed index, newest first, that bears the
\* display name, or None
_getembedding_index_endpoint_deployed_index_id(endpoints, endpoint, display_name) ==
  IF endpoint = NoEndpoint \/ IndexOf(endpoints, endpoint) = 0
  THEN NoDeployedId
  ELSE LET deployed ==
             sorted_reverse(
               endpoints[IndexOf(endpoints, endpoint)].deployed_indexes)
           hits == { i \in 1..Len(deployed) :
                       deployed[i].display_name = display_name }
       IN IF hits = {} THEN NoDeployedId ELSE deployed[Least(hits)].id

\* embedding_index_endpoint.match: the backend answers every query with its
\* matches when the index is deployed on the endpoint, and else raises
match(endpoints, endpoint, deployed_index_id, queries) ==
  LET i == IndexOf(endpoints, endpoint)
  IN IF /\ i > 0
        /\ \E j \in 1..Len(endpoints[i].deployed_indexes) :
             endpoints[i].deployed_indexes[j].id = deployed_index_id
     THEN [raised |-> "none",
           response |-> [k \in 1..Len(queries) |-> Neighbors(queries[k])]]
     ELSE [raised |-> "NotFound", response |-> << >>]

\* mutant: the query is sent whatever the client has resolved
find_neighbors_for_vectors_Unguarded(endpoints, endpoint, deployed_id, vectors) ==
  LET m == match(endpoints, endpoint, deployed_id, vectors)
  IN [raised |-> m.raised,
      queries |-> << [endpoint |-> endpoint,
                      deployed_index_id |-> deployed_id,
                      queries |-> vectors] >>,
      result |-> m.response]

\* find_neighbors_for_vectors: NotFoundError without an endpoint or without
\* a deployed id, else one match query whose response is returned
find_neighbors_for_vectors(endpoints, endpoint, deployed_id, vectors) ==
  IF endpoint = NoEndpoint
  THEN [raised |-> "NotFoundError", queries |-> << >>, result |-> << >>]
  ELSE IF deployed_id = NoDeployedId
  THEN [raised |-> "NotFoundError", queries |-> << >>, result |-> << >>]
  ELSE LET m == match(endpoints, endpoint, deployed_id, vectors)
       IN [raised |-> m.raised,
           queries |-> << [endpoint |-> endpoint,
                           deployed_index_id |-> deployed_id,
                           queries |-> vectors] >>,
           result |-> m.response]

IndexCall(op, raised, arg, queries, result) ==
  [op |-> op, raised |-> raised, listed |-> Len(backend_endpoints),
   arg |-> arg, queries |-> queries, result |-> result]

\* AiPlatformClient(): the endpoint of the default display name and its
\* deployed index are resolved
NewAiPlatformClient ==
  /\ LET endpoint ==
           _getembedding_index_endpoint(
             backend_endpoints, _DEFAULT_INDEX_ENDPOINT_DISPLAY_NAME)
         deployed_id ==
           _getembedding_index_endpoint_deployed_index_id(
             backend_endpoints, endpoint,
             _DEFAULT_INDEX_DEPLOYED_DISPLAY_NAME)
     IN /\ embedding_index_endpoint' = endpoint
        /\ embedding_index_deployed_id' = deployed_id
        /\ ilast' = IndexCall("init", "none", << >>, << >>, << >>)
        /\ torn_down' = FALSE
  /\ UNCHANGED << serverVars, backendVars, corpusVars, embedVars,
                  describeVars, classifyVars, time_ns, deployments,
                  backend_deployed >>

\* create_embeddings_index()
CreateEmbeddingsIndex ==
  /\ Resources < MaxResources
  /\ backend_indexes' =
       create_embeddings_index(backend_indexes, _DEFAULT_INDEX_DISPLAY_NAME)
  /\ ilast' = IndexCall("create_index", "none", << >>, << >>, << >>)
  /\ UNCHANGED << serverVars, backend_endpoints, endpoints_created,
                  embedding_index_endpoint, torn_down, corpusVars, embedVars,
                  describeVars, classifyVars, deployVars >>

\* create_embeddings_index_endpoint(display_name)
CreateEmbeddingsIndexEndpoint(display_name) ==
  /\ Resources < MaxResources
  /\ LET r == create_embeddings_index_endpoint(
                backend_endpoints, endpoints_created, display_name)
     IN /\ backend_endpoints' = r.endpoints
        /\ endpoints_created' = r.created
        /\ ilast' = IndexCall("create_endpoint", "none", display_name,
                              << >>, r.returned)
  /\ UNCHANGED << serverVars, backend_indexes, embedding_index_endpoint,
                  torn_down, corpusVars, embedVars, describeVars,
                  classifyVars, deployVars >>

\* endpoint.deploy_index took effect on the backend: the i-th endpoint
\* lists one more deployed index, stamped with its creation time
DeployedOnBackend(i, display_name, create_time) ==
  /\ i \in 1..Len(backend_endpoints)
  /\ Resources < MaxResources
  /\ LET id == DeployedIndexId(display_name, create_time)
     IN /\ id \notin DeployedIds(backend_endpoints)
        /\ backend_endpoints' =
             [backend_endpoints EXCEPT ![i].deployed_indexes =
                Append(@, [id |-> id, display_name |-> display_name,
                           create_time |-> create_time])]
  /\ ilast' = NoIndexCall
  /\ UNCHANGED << serverVars, backend_indexes, endpoints_created,
                  embedding_index_endpoint, torn_down, corpusVars, embedVars,
                  describeVars, classifyVars, deployVars >>

\* delete_all_embedding_index_endpoints()
DeleteAllEmbeddingIndexEndpoints(fault) ==
  /\ fault \in 0..(Len(backend_endpoints) + 1)
  /\ LET r == delete_all_embedding_index_endpoints(backend_endpoints, fault)
     IN /\ backend_endpoints' = r.endpoints
        /\ IF r.cleared
           THEN /\ embedding_index_endpoint' = NoEndpoint
                /\ embedding_index_deployed_id' = NoDeployedId
           ELSE UNCHANGED << embedding_index_endpoint,
                             embedding_index_deployed_id >>
        /\ torn_down' = (torn_down \/ r.cleared)
        /\ ilast' = IndexCall("delete_all", r.raised,
                              [i \in 1..Len(backend_endpoints) |->
                                 backend_endpoints[i].display_name],
                              << >>, r.deleted)
  /\ UNCHANGED << serverVars, backend_indexes, endpoints_created,
                  corpusVars, embedVars, describeVars, classifyVars,
                  time_ns, deployments, backend_deployed >>

\* find_neighbors_for_vectors(vectors)
FindNeighborsForVectors(vectors) ==
  /\ LET r == find_neighbors_for_vectors(
                backend_endpoints, embedding_index_endpoint,
                embedding_index_deployed_id, vectors)
     IN ilast' = IndexCall("find_neighbors", r.raised, vectors, r.queries,
                           r.result)
  /\ UNCHANGED << serverVars, backendVars, embedding_index_endpoint,
                  torn_down, corpusVars, embedVars, describeVars,
                  classifyVars, deployVars >>

\* mutant: the endpoint deployed to becomes the client's endpoint
deploy_embedding_index_to_endpoint_CachesEndpoint(endpoints, i, endpoint, deployed_id, display_name, time_id, e) ==
  LET id == DeployedIndexId(display_name, time_id)
  IN IF e = "none"
     THEN [endpoints |->
             [endpoints EXCEPT ![i].deployed_indexes =
                Append(@, [id |-> id, display_name |-> display_name,
                           create_time |-> time_id])],
           embedding_index_endpoint |-> endpoints[i].name,
           embedding_index_deployed_id |-> id,
           raised |-> "none"]
     ELSE [endpoints |-> endpoints,
           embedding_index_endpoint |-> endpoint,
           embedding_index_deployed_id |-> deployed_id,
           raised |-> DeployExcept(e)]

\* deploy_embedding_index_to_endpoint on the i-th endpoint of the backend:
\* when deploy_index returned, the endpoint lists the deployed index and
\* the client records its id; when it raised e, nothing is recorded
deploy_embedding_index_to_endpoint(endpoints, i, endpoint, deployed_id, display_name, time_id, e) ==
  LET id == DeployedIndexId(display_name, time_id)
  IN IF e = "none"
     THEN [endpoints |->
             [endpoints EXCEPT ![i].deployed_indexes =
                Append(@, [id |-> id, display_name |-> display_name,
                           create_time |-> time_id])],
           embedding_index_endpoint |-> endpoint,
           embedding_index_deployed_id |-> id,
           raised |-> "none"]
     ELSE [endpoints |-> endpoints,
           embedding_index_endpoint |-> endpoint,
           embedding_index_deployed_id |-> deployed_id,
           raised |-> DeployExcept(e)]

\* the newest creation time stamped on a deployed index, 0 without one
NewestCreateTime(endpoints) ==
  LET times ==
        UNION { { endpoints[i].deployed_indexes[j].create_time :
                    j \in 1..Len(endpoints[i].deployed_indexes) } :
                i \in 1..Len(endpoints) }
  IN IF times = {} THEN 0 ELSE CHOOSE t \in times : \A u \in times : u <= t

\* deploy_embedding_index_to_endpoint(embedding_index, the i-th endpoint,
\* display_name), the clock reading time_id: the time of the newest
\* deployment or a later one
DeployToEndpoint(i, display_name, time_id, e) ==
  /\ backend_indexes # << >>
  /\ Resources < MaxResources
  /\ i \in 1..Len(backend_endpoints)
  /\ time_id \in CreateTimes
  /\ time_id - NewestCreateTime(backend_endpoints) \in {0, 1}
  /\ e \in deploy_index(DeployedIds(backend_endpoints),
                        DeployedIndexId(display_name, time_id))
  /\ LET r == deploy_embedding_index_to_endpoint(
                backend_endpoints, i, embedding_index_endpoint,
                embedding_index_deployed_id, display_name, time_id, e)
     IN /\ backend_endpoints' = r.endpoints
        /\ embedding_index_endpoint' = r.embedding_index_endpoint
        /\ embedding_index_deployed_id' = r.embedding_index_deployed_id
        /\ ilast' = IndexCall("deploy", r.raised,
                              DeployedIndexId(display_name, time_id),
                              << >>, backend_endpoints[i].name)
  /\ UNCHANGED << serverVars, backend_indexes, endpoints_created,
                  torn_down, corpusVars, embedVars, describeVars,
                  classifyVars, time_ns, deployments, backend_deployed >>

NextIndex ==
  \/ NewAiPlatformClient
  \/ CreateEmbeddingsIndex
  \/ \E display_name \in EndpointDisplayNames :
       CreateEmbeddingsIndexEndpoint(display_name)
  \/ /\ Resources < MaxResources
     /\ \E i \in 1..Len(backend_endpoints), display_name \in DisplayNames,
           create_time \in CreateTimes :
          DeployedOnBackend(i, display_name, create_time)
  \/ \E fault \in 0..(MaxResources + 1) :
       DeleteAllEmbeddingIndexEndpoints(fault)
  \/ \E vectors \in QueryVectors : FindNeighborsForVectors(vectors)
  \/ /\ backend_indexes # << >>
     /\ Resources < MaxResources
     /\ \E time_id \in CreateTimes :
          /\ time_id - NewestCreateTime(backend_endpoints) \in {0, 1}
          /\ \E i \in 1..Len(backend_endpoints),
                display_name \in DisplayNames,
                e \in {"none", "RuntimeError", "AlreadyExists"} :
               DeployToEndpoint(i, display_name, time_id, e)

SpecIndex == Init /\ [][NextIndex]_vars

\* ---------------------------------------------------------------------------
\* The corpus of a run: _get_taxonomy_from_spreadsheet and
\* _add_embeddings_to_taxonomy of api/services/taxonomy_service.py,
\* Taxonomy.to_category_embedding_list of api/datamodel/taxonomy.py and
\* write_taxonomy_embeddings of api/common/storage_client.py, on the data
\* they pass on to one another.
\* ---------------------------------------------------------------------------
_CATEGORIES_PER_FILE == 3500

\* the columns read from the worksheet: short ones of any content, a
\* repeated cell included
Columns == Lists({Text(0), Text(1), Text(2)}, MaxRows)

\* str(index): the numeral of the index, a string that no cell holds
str(index) == Str(index, "numeral")

\* Category(id=str(index), name=value)
Category(index, value) ==
  [id |-> str(index), name |-> value, embeddings |-> NULL]

\* values[1:] if header else values, and one Category for each value
_get_taxonomy_from_spreadsheet(values, has_header) ==
  LET rows == IF has_header THEN SubSeq(values, 2, Len(values)) ELSE values
  IN [i \in 1..Len(rows) |-> Category(i - 1, rows[i])]

\* the vectors get_embeddings_batch collects over its loop, batch after
\* batch; the provider gives the answer to its first call and an exact
\* answer to the calls that follow
RECURSIVE embeddings_loop(_, _, _, _)
embeddings_loop(values, start, b, answer) ==
  IF start >= Len(values) THEN << >>
  ELSE LET batch == _get_text_list_batch(values, start, _MAX_BATCH_SIZE)
       IN get_embeddings(b, Len(batch.batch),
                         IF b = 0 THEN answer ELSE "exact")
            \o embeddings_loop(values, batch.next_batch_index, b + 1, answer)

\* get_embeddings_batch(category_names): the map returned, or the error of
\* the provider
get_embeddings_batch(names, answer) ==
  LET input == _build_input_object_for_embeddings(Some(names), None)
  IN IF answer = "error" /\ Len(input.text_values) > 0
     THEN [raised |-> "GoogleAPIError", embeddings |-> EmptyDict]
     ELSE [raised |-> "none",
           embeddings |->
             dict(zip(input.output_keys,
                      embeddings_loop(input.text_values, 0, 0, answer)))]

\* mutant: a record is identified by the id of the category
to_category_embedding_list_ById(categories) ==
  [i \in 1..Len(categories) |->
     [id |-> categories[i].id, embedding |-> categories[i].embeddings]]

\* Taxonomy.to_category_embedding_list
to_category_embedding_list(categories) ==
  [i \in 1..Len(categories) |->
     [id |-> categories[i].name, embedding |-> categories[i].embeddings]]

\* json.dumps(record, separators=(',', ':')): the keys and values of the
\* record in the order of insertion
json_dumps(record) == << "id", record.id, "embedding", record.embedding >>

\* mutant: the quotient is rounded down
num_chunks_Floor(n) ==
  IF n > _CATEGORIES_PER_FILE THEN n \div _CATEGORIES_PER_FILE ELSE 1

\* math.ceil(n / _CATEGORIES_PER_FILE) if n > _CATEGORIES_PER_FILE else 1
num_chunks(n) ==
  IF n > _CATEGORIES_PER_FILE
  THEN (n + _CATEGORIES_PER_FILE - 1) \div _CATEGORIES_PER_FILE
  ELSE 1

\* np.array_split(l, k): k sections, the first Len(l) % k of them one item
\* longer than the others
array_split(l, k) ==
  LET each == Len(l) \div k
      extras == Len(l) % k
      end(i) == i * each + (IF i < extras THEN i ELSE extras)
  IN [i \in 1..k |-> SubSeq(l, end(i - 1) + 1, end(i))]

\* f'{file_prefix}_{index}.json'
FileName(index) == << "embeddings", "_", index, ".json" >>

\* the blob uploaded for a chunk: '\n'.join of the lines of its records
Blob(index, chunk) ==
  [file_name |-> FileName(index),
   data |-> [j \in 1..Len(chunk) |-> json_dumps(chunk[j])]]

\* mutant: the blobs of the names that follow are deleted
upload_from_string_Truncating(blobs, blob) ==
  LET k == blob.file_name[3] + 1
  IN Append(SubSeq(blobs, 1, k - 1), blob)

\* bucket.blob(file_name).upload_from_string(data): the blob of this name
\* is replaced, or added to the bucket.  The blobs of the bucket are
\* listed by name: embeddings_0.json, embeddings_1.json, ...
upload_from_string(blobs, blob) ==
  LET k == blob.file_name[3] + 1
  IN IF k <= Len(blobs) THEN [blobs EXCEPT ![k] = blob]
     ELSE Append(blobs, blob)

\* the uploads of the loop over the chunks, file after file
RECURSIVE upload_chunks(_, _)
upload_chunks(blobs, files) ==
  IF files = << >> THEN blobs
  ELSE upload_chunks(upload_from_string(blobs, Head(files)), Tail(files))

\* create_tree_ah_index(contents_delta_uri=f'gs://{bucket_name}'): the ids of
\* the records of every file of the bucket, file after file
RECURSIVE create_tree_ah_index(_)
create_tree_ah_index(blobs) ==
  IF blobs = << >> THEN << >>
  ELSE [j \in DOMAIN Head(blobs).data |-> Head(blobs).data[j][2]]
         \o create_tree_ah_index(Tail(blobs))

\* a run reads the column of the worksheet
GetTaxonomyFromSpreadsheet(values, has_header) ==
  /\ spc = "idle"
  /\ col_values' = values
  /\ header' = has_header
  /\ taxonomy' = _get_taxonomy_from_spreadsheet(values, has_header)
  /\ spc' = "read"
  /\ UNCHANGED << category_embeddings, uploads, sraised, file_name, bucket,
                  index_contents >>
  /\ UNCHANGED << serverVars, backendVars, indexVars, embedVars,
                  describeVars, classifyVars, deployVars >>

\* _add_embeddings_to_taxonomy: the names are embedded and every category
\* takes category_embeddings[category.name]
AddEmbeddingsToTaxonomy(answer) ==
  /\ spc = "read"
  /\ LET names == [i \in 1..Len(taxonomy) |-> taxonomy[i].name]
         r == get_embeddings_batch(names, answer)
         found == { i \in 1..Len(taxonomy) :
                      taxonomy[i].name \in DOMAIN r.embeddings.map }
     IN IF r.raised # "none"
        THEN /\ sraised' = r.raised
             /\ spc' = "raised"
             /\ UNCHANGED << taxonomy, category_embeddings >>
        ELSE /\ category_embeddings' = r.embeddings
             /\ IF found = 1..Len(taxonomy)
                THEN /\ taxonomy' =
                          [i \in 1..Len(taxonomy) |->
                             [taxonomy[i] EXCEPT !.embeddings =
                                r.embeddings.map[taxonomy[i].name]]]
                     /\ spc' = "embedded"
                     /\ UNCHANGED sraised
                ELSE /\ taxonomy' =
                          [i \in 1..Len(taxonomy) |->
                             IF \A j \in 1..i : j \in found
                             THEN [taxonomy[i] EXCEPT !.embeddings =
                                     r.embeddings.map[taxonomy[i].name]]
                             ELSE taxonomy[i]]
                     /\ sraised' = "KeyError"
                     /\ spc' = "raised"
  /\ UNCHANGED << col_values, header, uploads, file_name, bucket,
                  index_contents >>
  /\ UNCHANGED << serverVars, backendVars, indexVars, embedVars,
                  describeVars, classifyVars, deployVars >>

\* write_taxonomy_embeddings(taxonomy): the records are split and uploaded
\* file after file.  fault = 0: every upload succeeds; fault = i: the i-th
\* upload raises ClientError, which is raised on as WriteTaxonomyError
write_taxonomy_embeddings(categories, fault) ==
  LET category_embeddings_list == to_category_embedding_list(categories)
      chunks == array_split(category_embeddings_list,
                            num_chunks(Len(category_embeddings_list)))
      done == IF fault = 0 \/ fault > Len(chunks) THEN Len(chunks)
              ELSE fault - 1
  IN [uploads |-> [i \in 1..done |-> Blob(i - 1, chunks[i])],
      raised |-> IF done = Len(chunks) THEN "none"
                 ELSE "WriteTaxonomyError",
      file_name |-> FileName(IF done = Len(chunks) THEN done - 1 ELSE done)]

\* the run writes its taxonomy: storage_client.write_taxonomy_embeddings
WriteCorpus(fault) ==
  /\ spc = "embedded"
  /\ \E r \in { write_taxonomy_embeddings(taxonomy, fault) } :
        /\ fault <= Len(r.uploads) + 1
        /\ uploads' = r.uploads
        /\ bucket' = upload_chunks(bucket, r.uploads)
        /\ file_name' = r.file_name
        /\ sraised' = r.raised
        /\ spc' = IF r.raised = "none" THEN "written" ELSE "raised"
  /\ UNCHANGED << col_values, header, taxonomy, category_embeddings,
                  index_contents >>
  /\ UNCHANGED << serverVars, backendVars, indexVars, embedVars,
                  describeVars, classifyVars, deployVars >>

\* numbers of categories of a taxonomy: around zero and around every
\* multiple of the number of categories of a file
CorpusSizes ==
  {0, 1} \cup
  { _CATEGORIES_PER_FILE * k + d : k \in 1..MaxFiles, d \in {-1, 0, 1} }

\* a taxonomy of n categories with their embeddings
EmbeddedTaxonomy(n) ==
  [i \in 1..n |->
     [id |-> str(i - 1), name |-> Text(i),
      embeddings |-> Vector((i - 1) \div _MAX_BATCH_SIZE,
                            (i - 1) % _MAX_BATCH_SIZE)]]

\* a caller of the storage client writes a taxonomy of n categories
StorageWrite(n, fault) ==
  /\ spc = "idle"
  /\ taxonomy' = EmbeddedTaxonomy(n)
  /\ \E r \in { write_taxonomy_embeddings(taxonomy', fault) } :
        /\ fault <= Len(r.uploads) + 1
        /\ uploads' = r.uploads
        /\ bucket' = upload_chunks(bucket, r.uploads)
        /\ file_name' = r.file_name
        /\ sraised' = r.raised
        /\ spc' = IF r.raised = "none" THEN "stored" ELSE "store_raised"
  /\ UNCHANGED << col_values, header, category_embeddings, index_contents >>
  /\ UNCHANGED << serverVars, backendVars, indexVars, embedVars,
                  describeVars, classifyVars, deployVars >>

\* numbers of categories of the taxonomy of a later run: one file, and one
\* category more than a file holds
LaterSizes == { 1, _CATEGORIES_PER_FILE + 1 }

\* the taxonomy of a later run: n categories of other names
LaterTaxonomy(n) ==
  [i \in 1..n |->
     [id |-> str(i - 1), name |-> Text(0 - i),
      embeddings |-> Vector((i - 1) \div _MAX_BATCH_SIZE,
                            (i - 1) % _MAX_BATCH_SIZE)]]

\* a later run writes its taxonomy to the bucket the earlier run wrote to
\* and built its index on
StorageWriteAgain(n, fault) ==
  /\ spc = "indexed"
  /\ taxonomy' = LaterTaxonomy(n)
  /\ \E r \in { write_taxonomy_embeddings(taxonomy', fault) } :
        /\ fault <= Len(r.uploads) + 1
        /\ uploads' = r.uploads
        /\ bucket' = upload_chunks(bucket, r.uploads)
        /\ file_name' = r.file_name
        /\ sraised' = r.raised
        /\ spc' = IF r.raised = "none" THEN "stored_again"
                  ELSE "store_raised_again"
  /\ index_contents' = << >>
  /\ UNCHANGED << col_values, header, category_embeddings >>
  /\ UNCHANGED << serverVars, backendVars, indexVars, embedVars,
                  describeVars, classifyVars, deployVars >>

\* the run builds its index: create_embeddings_index, on the files of the
\* bucket
CreateIndexOnBucket ==
  /\ spc \in {"stored", "stored_again"}
  /\ index_contents' = create_tree_ah_index(bucket)
  /\ spc' = IF spc = "stored_again" THEN "indexed_again" ELSE "indexed"
  /\ UNCHANGED << col_values, header, taxonomy, category_embeddings, uploads,
                  sraised, file_name, bucket >>
  /\ UNCHANGED << serverVars, backendVars, indexVars, embedVars,
                  describeVars, classifyVars, deployVars >>

NextCorpus ==
  \/ /\ spc = "idle"
     /\ \E values \in Columns, has_header \in BOOLEAN :
          GetTaxonomyFromSpreadsheet(values, has_header)
  \/ \E answer \in ProviderAnswers : AddEmbeddingsToTaxonomy(answer)
  \/ \E fault \in 0..1 : WriteCorpus(fault)
  \/ /\ spc = "idle"
     /\ \E n \in CorpusSizes, fault \in 0..(MaxFiles + 1) :
          StorageWrite(n, fault)
  \/ /\ spc = "indexed"
     /\ \E n \in LaterSizes, fault \in 0..2 : StorageWriteAgain(n, fault)
  \/ CreateIndexOnBucket

SpecCorpus == Init /\ [][NextCorpus]_vars

\* ---------------------------------------------------------------------------
\* The classification cron: main of functions/classify_cron/main.py with
\* send_api_request of utils.py, ClassifyClient of classify_client.py and
\* BigQueryClient of bigquery_client.py.  A dict is the function from its
\* keys to their values.
\* ---------------------------------------------------------------------------
_BATCH_SIZE == 1000
_BQ_STREAMING_INSERT_BATCH_SIZE == 1000

\* tenacity.stop_after_attempt(5)
api_stop_after_attempt == 5

\* the keyword texts with spend, and the names of the categories
Keywords == { Text(1), Text(2) }
CategoryNames == { "category_a", "category_b" }

\* lists of the keywords, none of them twice: the query groups by
\* keyword_text
KeywordLists ==
  { l \in Lists(Keywords, Cardinality(Keywords)) :
      \A i, j \in DOMAIN l : l[i] = l[j] => i = j }

\* what happens on the attempts of one request, in order: the response is
\* not OK f times, and then it is OK, or the connection fails, or the ID
\* token cannot be fetched
ApiResponses(f, final) ==
  [a \in 1..api_stop_after_attempt |->
     IF a <= f THEN "HTTPError" ELSE final]
ApiFailureCounts ==
  {0, 1, api_stop_after_attempt - 1, api_stop_after_attempt}
ApiScripts ==
  { ApiResponses(f, final) :
      f \in ApiFailureCounts,
      final \in {"ok", "ConnectionError", "TransportError"} }

\* one attempt, the body of send_api_request: what it raises and whether
\* the request was sent (fetch_id_token raises before it is)
requests_request(response) ==
  IF response = "TransportError" THEN [raised |-> response, sent |-> 0]
  ELSE [raised |-> IF response = "ok" THEN "none" ELSE response, sent |-> 1]

\* mutant: every exception is retried
retry_if_HTTPError_Any(e) == TRUE

\* retry=tenacity.retry_if_exception_type(requests.exceptions.HTTPError)
retry_if_HTTPError(e) == e = "HTTPError"

\* tenacity.retry around the body: attempt a, after `sent` requests.
\* reraise=False: when the attempts are used up, RetryError is raised
RECURSIVE RetryingRequest(_, _, _)
RetryingRequest(responses, a, sent) ==
  LET r == requests_request(responses[a])
      n == sent + r.sent
  IN IF r.raised = "none" THEN [raised |-> "none", sent |-> n]
     ELSE IF ~retry_if_HTTPError(r.raised)
     THEN [raised |-> r.raised, sent |-> n]
     ELSE IF a >= api_stop_after_attempt
     THEN [raised |-> "RetryError", sent |-> n]
     ELSE RetryingRequest(responses, a + 1, n)

send_api_request(responses) == RetryingRequest(responses, 1, 0)

\* keywords[:_BATCH_SIZE], keywords[_BATCH_SIZE:]: the batches of params
RECURSIVE _build_api_param_batches(_)
_build_api_param_batches(keywords_to_process) ==
  IF keywords_to_process = << >> THEN << >>
  ELSE LET n == IF Len(keywords_to_process) < _BATCH_SIZE
                THEN Len(keywords_to_process) ELSE _BATCH_SIZE
       IN << [text |-> SubSeq(keywords_to_process, 1, n)] >>
            \o _build_api_param_batches(
                 SubSeq(keywords_to_process, n + 1, Len(keywords_to_process)))

\* response.json() of the classify API: one result for each text, with the
\* categories found for it
ResponseJson(params, category) ==
  [i \in DOMAIN params.text |->
     [text |-> params.text[i],
      categories |-> << [name |-> category[params.text[i]]] >>]]

\* _send_classify_api_requests: one request for each batch; the responses
\* are read in the order of the batches, the first exception is raised on
RECURSIVE _send_classify_api_requests(_, _, _)
_send_classify_api_requests(params_batches, responses, category) ==
  IF params_batches = << >>
  THEN [raised |-> "none", sent |-> 0, results |-> << >>]
  ELSE LET r == send_api_request(responses)
           rest == _send_classify_api_requests(Tail(params_batches),
                                               responses, category)
       IN [raised |-> IF r.raised # "none" THEN r.raised ELSE rest.raised,
           sent |-> r.sent + rest.sent,
           results |->
             IF r.raised # "none" \/ rest.raised # "none" THEN << >>
             ELSE ResponseJson(Head(params_batches), category)
                    \o rest.results]

\* classified_keywords[result['text']] = result['categories'][0]['name']
_build_dict_from_classify_api_results(classify_api_results) ==
  [k \in { classify_api_results[i].text : i \in DOMAIN classify_api_results }
     |-> LET last_result ==
               CHOOSE i \in DOMAIN classify_api_results :
                 /\ classify_api_results[i].text = k
                 /\ \A j \in DOMAIN classify_api_results :
                      classify_api_results[j].text = k => j <= i
         IN classify_api_results[last_result].categories[1].name]

\* CURRENT_KEYWORD_MAPPINGS_QUERY and the dict built from its rows: every
\* keyword_text of the table, with FIRST_VALUE(category_name) OVER (ORDER BY
\* updated_at DESC), the category of the row updated last
get_current_keyword_mappings(table) ==
  [k \in { row.keyword_text : row \in table } |->
     (CHOOSE row \in table :
        \A other \in table : other.updated_at <= row.updated_at).category_name]

\* mutant: every classified keyword is written
new_keywords_All(classified, current) == classified

\* {k: classified_keywords[k]
\*  for k in set(classified_keywords) - set(keyword_map)}
new_keywords(classified, current) ==
  [k \in (DOMAIN classified) \ (DOMAIN current) |-> classified[k]]

\* the rows of the staging table: one for each key, in the order of the
\* keys, with the time read for it
StagingRows(classified, order, time) ==
  [i \in DOMAIN order |->
     [keyword_text |-> order[i], category_name |-> classified[order[i]],
      datetime |-> time + i]]

\* rows[:_BQ_STREAMING_INSERT_BATCH_SIZE], ...: one insert_rows_json for
\* each chunk
RECURSIVE insert_rows_json(_)
insert_rows_json(rows_to_process) ==
  IF rows_to_process = << >> THEN << >>
  ELSE LET n == IF Len(rows_to_process) < _BQ_STREAMING_INSERT_BATCH_SIZE
                THEN Len(rows_to_process)
                ELSE _BQ_STREAMING_INSERT_BATCH_SIZE
       IN << [job |-> "INSERT", rows |-> SubSeq(rows_to_process, 1, n)] >>
            \o insert_rows_json(
                 SubSeq(rows_to_process, n + 1, Len(rows_to_process)))

\* MERGE_STAGING_TO_PROD_QUERY: a row of keywords matched by a row of the
\* staging table takes its category and time, a row of the staging table
\* that matches none is inserted
MERGE_STAGING_TO_PROD_QUERY(K, S) ==
  LET Matches(k) == { r \in S : r.keyword_text = k.keyword_text }
      Matched(r) == \E k \in K : k.keyword_text = r.keyword_text
  IN { IF Matches(k) = {} THEN k
       ELSE LET r == CHOOSE r \in Matches(k) : TRUE
            IN [k EXCEPT !.category_name = r.category_name,
                         !.updated_at = r.datetime] : k \in K }
     \cup { [keyword_text |-> r.keyword_text,
             category_name |-> r.category_name,
             updated_at |-> r.datetime] : r \in { q \in S : ~Matched(q) } }

\* write_classified_keywords: nothing for an empty dict; else the staging
\* table is truncated and filled, and merged into keywords, which is merged
\* into keywords_scd
write_classified_keywords(classified, order, time, K, S) ==
  IF DOMAIN classified = {}
  THEN [jobs |-> << >>, keywords |-> K, staging |-> S]
  ELSE LET rows == StagingRows(classified, order, time)
           staged == { rows[i] : i \in DOMAIN rows }
       IN [jobs |-> << [job |-> "TRUNCATE", rows |-> << >>] >>
                      \o insert_rows_json(rows)
                      \o << [job |-> "MERGE", rows |-> << >>],
                            [job |-> "MERGE_SCD", rows |-> << >>] >>,
           keywords |-> MERGE_STAGING_TO_PROD_QUERY(K, staged),
           staging |-> staged]

\* the time of the clock when a run begins: every row written before has
\* an earlier time
TimeOfRun(run) == (run - 1) * Cardinality(Keywords)

\* main: the cron is triggered.  kws are the keywords with spend, responses
\* what the classify API does, category the categories it finds, and
\* mapping_ok tells whether the query of the current mapping succeeds; the
\* dict of the new keywords lists its keys in some order
main(kws, responses, category, mapping_ok) ==
  /\ cron_runs < MaxCronRuns
  /\ cron_runs' = cron_runs + 1
  /\ keywords' = kws
  /\ api_responses' = responses
  /\ LET api == _send_classify_api_requests(_build_api_param_batches(kws),
                                            responses, category)
         classified == _build_dict_from_classify_api_results(api.results)
         current == get_current_keyword_mappings(keywords_table)
         new == new_keywords(classified, current)
         written(order) ==
           write_classified_keywords(new, order, TimeOfRun(cron_runs'),
                                     keywords_table, staging_table)
     IN /\ requests_sent' = api.sent
        /\ api_raised' = api.raised
        /\ IF api.raised # "none"
           THEN /\ response_status' = 500
                /\ classified_keywords' = << >>
                /\ keyword_map' = << >>
                /\ new_classified_keywords' = << >>
                /\ query_jobs' = << >>
                /\ UNCHANGED << keywords_table, staging_table >>
           ELSE IF ~mapping_ok
           THEN /\ response_status' = 500
                /\ classified_keywords' = classified
                /\ keyword_map' = << >>
                /\ new_classified_keywords' = << >>
                /\ query_jobs' = << >>
                /\ UNCHANGED << keywords_table, staging_table >>
           ELSE /\ response_status' = 200
                /\ classified_keywords' = classified
                /\ keyword_map' = current
                /\ new_classified_keywords' = new
                /\ \E order \in KeywordLists :
                     /\ { order[i] : i \in DOMAIN order } = DOMAIN new
                     /\ query_jobs' = written(order).jobs
                     /\ keywords_table' = written(order).keywords
                     /\ staging_table' = written(order).staging
  /\ UNCHANGED << trackerVars, pipelineVars, concVars, backendVars,
                  embedVars, describeVars, classifyVars, deployVars,
                  indexVars, corpusVars, mainVars, overlapVars >>

NextCron ==
  /\ cron_runs < MaxCronRuns
  /\ \E kws \in KeywordLists, responses \in ApiScripts,
        category \in [Keywords -> CategoryNames], mapping_ok \in BOOLEAN :
       main(kws, responses, category, mapping_ok)

SpecCron == Init /\ [][NextCron]_vars

\* ---------------------------------------------------------------------------
\* Overlapping jobs: each POST /generate_taxonomy_embeddings of api/main.py
\* starts an execution of the job under a new task id, whatever executions
\* are running.  The executions share the backend; each goes through the
\* backend calls of create_taxonomy_embeddings_index_endpoint
\* (api/services/taxonomy_service.py): teardown, create index, create
\* endpoint, deploy to the endpoint it created.
\* ---------------------------------------------------------------------------
\* the endpoints the backend lists: name and display name of each
Live(endpoints) ==
  [i \in 1..Len(endpoints) |->
     << endpoints[i].name, endpoints[i].display_name >>]

\* a backend call of a job: the endpoint it created or was given, what it
\* raised, and the endpoints the backend lists after it
OverlapCall(job, op, endpoint, raised, endpoints) ==
  [job |-> job, op |-> op, endpoint |-> endpoint, raised |-> raised,
   live |-> Live(endpoints)]

\* what no action of the overlapping jobs changes
OverlapFrame ==
  << trackerVars, pipelineVars, concVars, embedVars, describeVars,
     classifyVars, deployVars, indexVars, corpusVars, cronVars, mainVars >>

\* generate_taxonomy_embeddings: a task id is drawn and the job is started;
\* the execution reads, embeds and writes the corpus and reaches the
\* teardown
StartExecution(e) ==
  /\ opc[e] = "idle"
  /\ ojobs < MaxJobs
  /\ ojobs' = ojobs + 1
  /\ ojob' = [ojob EXCEPT ![e] = ojobs + 1]
  /\ opc' = [opc EXCEPT ![e] = "teardown"]
  /\ ohandle' = [ohandle EXCEPT ![e] = NoEndpoint]
  /\ UNCHANGED << olog, backendVars, OverlapFrame >>

\* delete_all_embedding_index_endpoints() of execution e
TeardownOf(e) ==
  /\ opc[e] = "teardown"
  /\ LET r == delete_all_embedding_index_endpoints(
                backend_endpoints, Len(backend_endpoints) + 1)
     IN /\ backend_endpoints' = r.endpoints
        /\ olog' = Append(olog, OverlapCall(ojob[e], "teardown", NoEndpoint,
                                            r.raised, r.endpoints))
  /\ opc' = [opc EXCEPT ![e] = "index"]
  /\ UNCHANGED << ojob, ojobs, ohandle, backend_indexes, endpoints_created,
                  OverlapFrame >>

\* create_embeddings_index() of execution e
CreateIndexOf(e) ==
  /\ opc[e] = "index"
  /\ backend_indexes' =
       create_embeddings_index(backend_indexes, _DEFAULT_INDEX_DISPLAY_NAME)
  /\ olog' = Append(olog, OverlapCall(ojob[e], "create_index", NoEndpoint,
                                      "none", backend_endpoints))
  /\ opc' = [opc EXCEPT ![e] = "endpoint"]
  /\ UNCHANGED << ojob, ojobs, ohandle, backend_endpoints,
                  endpoints_created, OverlapFrame >>

\* create_embeddings_index_endpoint() of execution e: the endpoint returned
\* is kept for the deploy
CreateEndpointOf(e) ==
  /\ opc[e] = "endpoint"
  /\ LET r == create_embeddings_index_endpoint(
                backend_endpoints, endpoints_created,
                _DEFAULT_INDEX_ENDPOINT_DISPLAY_NAME)
     IN /\ backend_endpoints' = r.endpoints
        /\ endpoints_created' = r.created
        /\ ohandle' = [ohandle EXCEPT ![e] = r.returned]
        /\ olog' = Append(olog, OverlapCall(ojob[e], "create_endpoint",
                                            r.returned, "none", r.endpoints))
  /\ opc' = [opc EXCEPT ![e] = "deploy"]
  /\ UNCHANGED << ojob, ojobs, backend_indexes, OverlapFrame >>

\* deploy_embedding_index_to_endpoint(embeddings_index,
\* embeddings_index_endpoint) of execution e: deploy_index raises NotFound
\* when the backend no longer holds the endpoint; the execution ends
DeployOf(e) ==
  /\ opc[e] = "deploy"
  /\ LET i == IndexOf(backend_endpoints, ohandle[e])
         r == deploy_embedding_index_to_endpoint(
                backend_endpoints, i, NoEndpoint, NoDeployedId,
                _DEFAULT_INDEX_DEPLOYED_DISPLAY_NAME, ojob[e],
                IF i = 0 THEN "NotFound" ELSE "none")
     IN /\ backend_endpoints' = r.endpoints
        /\ olog' = Append(olog, OverlapCall(ojob[e], "deploy", ohandle[e],
                                            r.raised, r.endpoints))
  /\ opc' = [opc EXCEPT ![e] = "idle"]
  /\ UNCHANGED << ojob, ojobs, ohandle, backend_indexes, endpoints_created,
                  OverlapFrame >>

NextOverlap ==
  \E e \in Executions :
    \/ StartExecution(e)
    \/ TeardownOf(e)
    \/ CreateIndexOf(e)
    \/ CreateEndpointOf(e)
    \/ DeployOf(e)

SpecOverlap == Init /\ [][NextOverlap]_vars


\* ---------------------------------------------------------------------------
\* Properties of the pipeline run
\* ---------------------------------------------------------------------------
Args(seq) == [i \in DOMAIN seq |-> seq[i].arg]
OfKind(kinds) == SelectSeq(events, LAMBDA e : e.kind \in kinds)
\* the calls the run made to the tracker, and the statuses it committed
TrackerCalls == OfKind({"add", "update"})
Written == Args(OfKind({"commit"}))
WorkStarted == Args(OfKind({"work"}))
IsPrefix(a, b) == Len(a) <= Len(b) /\ a = SubSeq(b, 1, Len(a))
Occurrences(seq, x) == Cardinality({i \in DOMAIN seq : seq[i] = x})
StoredStatus(t) == get_task_status(task_status, t, "none").result.status

Progression ==
  << "STARTED",
     "IN_PROGRESS_GETTING_EMBEDDINGS",
     "IN_PROGRESS_WRITING_EMBEDDINGS_TO_GCS",
     "IN_PROGRESS_CREATING_EMBEDDINGS_INDEX",
     "IN_PROGRESS_CREATING_EMBEDDINGS_INDEX_ENDPOINT",
     "IN_PROGRESS_DEPLOYING_EMBEDDINGS_INDEX_TO_ENDPOINT",
     "SUCCEEDED" >>

\* the work of the pipeline in order, and the status of the stage it is in
AllWork ==
  << "read", "embed", "write", "teardown", "index", "endpoint", "deploy" >>

StageStatus(stage) ==
  CASE stage = "embed" -> "IN_PROGRESS_GETTING_EMBEDDINGS"
    [] stage = "write" -> "IN_PROGRESS_WRITING_EMBEDDINGS_TO_GCS"
    [] stage = "index" -> "IN_PROGRESS_CREATING_EMBEDDINGS_INDEX"
    [] stage = "endpoint" -> "IN_PROGRESS_CREATING_EMBEDDINGS_INDEX_ENDPOINT"
    [] stage = "deploy" ->
         "IN_PROGRESS_DEPLOYING_EMBEDDINGS_INDEX_TO_ENDPOINT"

Stages == {"embed", "write", "index", "endpoint", "deploy"}

RunOver == pc \in {"returned", "exited"}
AllStepsSucceeded == pc = "returned" /\ failedStep = "none"

\* C1: a run in which every step succeeds makes exactly one add(task_id) and
\* then exactly six update calls, GETTING_EMBEDDINGS, WRITING_EMBEDDINGS_TO_GCS,
\* CREATING_EMBEDDINGS_INDEX, CREATING_EMBEDDINGS_INDEX_ENDPOINT,
\* DEPLOYING_EMBEDDINGS_INDEX_TO_ENDPOINT, SUCCEEDED, in this order.
C1_SuccessfulRunCalls ==
  AllStepsSucceeded =>
    /\ Len(TrackerCalls) = 7
    /\ TrackerCalls[1] = Ev("add", "STARTED")
    /\ \A i \in 2..7 : TrackerCalls[i] = Ev("update", Progression[i])

C1_Witness ==
  AllStepsSucceeded /\ StoredStatus(task_id) = "SUCCEEDED"

\* C2: each in-progress status is committed before the work of its stage is
\* started, SUCCEEDED is committed only after all the work has returned with
\* no error, and when the work of a stage raises the stored status is the
\* status of that stage.
C2_StatusBeforeWork ==
  /\ \A i \in DOMAIN events :
       (events[i].kind = "work" /\ events[i].arg \in Stages) =>
         \E j \in 1..(i - 1) :
           events[j] = Ev("commit", StageStatus(events[i].arg))
  /\ \A i \in DOMAIN events :
       events[i] = Ev("commit", "SUCCEEDED") =>
         /\ Args(SelectSeq(SubSeq(events, 1, i),
                           LAMBDA e : e.kind = "work")) = AllWork
         /\ \A j \in 1..i : events[j].kind # "raise"
  /\ (pc = "except" /\ failedStep \in Stages) =>
       StoredStatus(task_id) = StageStatus(failedStep)

C2_Witness ==
  /\ pc = "except"
  /\ failedStep = "endpoint"
  /\ StoredStatus(task_id) = "IN_PROGRESS_CREATING_EMBEDDINGS_INDEX_ENDPOINT"

\* the steps of the run inside the try block of
\* setup_vector_search_endpoint_from_spreadsheet_data (steps 2 to 8 and the
\* tracker updates between them), and those before it
TrySteps ==
  { "read", "mark_getting", "embed", "mark_writing", "write", "mark_index",
    "teardown", "index", "mark_endpoint", "endpoint", "mark_deploying",
    "deploy", "mark_succeeded" }

FailedRecorded ==
  /\ \E i \in DOMAIN events : events[i] = Ev("update", "FAILED")
  /\ pc = "returned" => StoredStatus(task_id) = "FAILED"

C4_FailFastTrace ==
  /\ \/ IsPrefix(Written, Progression)
     \/ /\ Len(Written) >= 1
        /\ Written[Len(Written)] = "FAILED"
        /\ IsPrefix(SubSeq(Written, 1, Len(Written) - 1), Progression)
  /\ \A i \in DOMAIN events :
       events[i].kind = "raise" =>
         \A j \in (i + 1)..Len(events) :
           /\ events[j].kind # "work"
           /\ events[j].kind \in {"update", "commit"} =>
                events[j].arg = "FAILED"
  /\ \A w \in Stages \cup {"read", "teardown"} :
       Occurrences(WorkStarted, w) <= 1
  /\ \A s \in TaskStatus : Occurrences(Args(TrackerCalls), s) <= 1
  /\ ~(Occurrences(Written, "SUCCEEDED") > 0
         /\ Occurrences(Written, "FAILED") > 0)

C4_Witness ==
  /\ pc = "returned"
  /\ failedStep = "write"
  /\ Written = << "STARTED", "IN_PROGRESS_GETTING_EMBEDDINGS",
                  "IN_PROGRESS_WRITING_EMBEDDINGS_TO_GCS", "FAILED" >>

\* C5: a run whose registration succeeded comes to an end; unless the update
\* to FAILED itself raised it returns, and from then on the stored status is
\* SUCCEEDED if all the steps succeeded and FAILED otherwise, never STARTED
\* nor an IN_PROGRESS status.
C5_TerminalStatus ==
  /\ \A r \in 1..MaxRuns :
       (pc = "read" /\ runs = r) ~>
         /\ runs = r
         /\ \/ pc = "returned"
            \/ pc = "exited" /\ events[Len(events)] = Ev("raise", "except")
  /\ [](pc = "returned" =>
          StoredStatus(task_id) =
            IF failedStep = "none" THEN "SUCCEEDED" ELSE "FAILED")

C5_Witness ==
  /\ pc = "returned"
  /\ failedStep = "mark_index"
  /\ StoredStatus(task_id) = "FAILED"


\* ---------------------------------------------------------------------------
\* Properties of the Task State Tracker
\* ---------------------------------------------------------------------------
RowsOf(table, t) == {i \in DOMAIN table : table[i].task_id = t}
NoFaults(call) == \A i \in DOMAIN call.faults : call.faults[i] = "none"

\* C6: the table never holds two rows of one task_id; add_task on a task_id
\* that has a row does not raise and inserts nothing: it makes exactly one
\* update, of that row, to STARTED.
C6_AddTaskIdempotent ==
  /\ \A i, j \in DOMAIN task_status :
       task_status[i].task_id = task_status[j].task_id => i = j
  /\ ( /\ last.op = "add_task"
       /\ RowsOf(last.before, last.task_id) # {}
       /\ NoFaults(last) ) =>
       /\ last.raised = "none"
       /\ last.inserted = 0
       /\ last.updates = << "STARTED" >>
       /\ Len(task_status) = Len(last.before)
       /\ \A i \in DOMAIN task_status :
            /\ task_status[i].task_id = last.before[i].task_id
            /\ task_status[i].time_created = last.before[i].time_created
            /\ task_status[i].task_id = last.task_id =>
                 task_status[i].status = "STARTED"

C6_Witness ==
  /\ last.op = "add_task"
  /\ last.lost
  /\ last.raised = "none"
  /\ \E i \in DOMAIN last.before :
       /\ last.before[i].task_id = last.task_id
       /\ last.before[i].status = "FAILED"
       /\ task_status[i].status = "STARTED"

\* two calls of add_task for one task_id that overlapped have both finished,
\* no request of either having met a fault
PairDone ==
  /\ overlap
  /\ \A p \in Callers : cpc[p] = "done" /\ ~cfault[p]
  /\ ctask[1] = ctask[2]

PairConverged ==
  /\ \A p \in Callers : craised[p] = "none"
  /\ Cardinality(RowsOf(task_status, ctask[1])) = 1
  /\ \A i \in RowsOf(task_status, ctask[1]) : task_status[i].status = "STARTED"

Losers == {p \in Callers : clost[p]}

\* C7 as stated: after two concurrent add_task calls for one task_id both
\* have returned without error, one row with status STARTED exists, and at
\* most one of them lost the insert and fell back to update.
C7_AtMostOneLoses ==
  PairDone => (PairConverged /\ Cardinality(Losers) <= 1)

\* C7 amended: both return without error and one row with status STARTED
\* exists; exactly one of them loses the insert when no row of the task_id
\* existed before the calls, and both lose it when one did.
C7_ConcurrentAddConverges ==
  PairDone =>
    /\ PairConverged
    /\ Cardinality(Losers) = IF rowBefore[1] THEN 2 ELSE 1

C7_Witness ==
  PairDone /\ ~rowBefore[1] /\ Cardinality(Losers) = 1

\* C8: get_task_status of a task_id with no row returns {task_id, status:
\* NOT_FOUND} and nothing else, without error; with a row it returns the
\* row's four columns; a lookup leaves the table as it is; no row written by
\* a pipeline run has status NOT_FOUND.
C8_LookupResult ==
  /\ []( (last.op = "get_task_status" /\ NoFaults(last)) =>
          /\ last.raised = "none"
          /\ RowsOf(last.before, last.task_id) = {} =>
               /\ DOMAIN last.result = {"task_id", "status"}
               /\ last.result.task_id = last.task_id
               /\ last.result.status = "NOT_FOUND"
          /\ \A i \in RowsOf(last.before, last.task_id) :
               /\ DOMAIN last.result =
                    {"task_id", "status", "time_created", "time_updated"}
               /\ last.result.task_id = last.task_id
               /\ last.result.status = last.before[i].status
               /\ last.result.time_created = last.before[i].time_created
               /\ last.result.time_updated = last.before[i].time_updated )
  /\ [](\A i \in DOMAIN task_status : task_status[i].status # "NOT_FOUND")
  /\ [][last'.op = "get_task_status" => task_status' = task_status]_vars

C8_Witness ==
  /\ last.op = "get_task_status"
  /\ last.result = [task_id |-> "t2", status |-> "NOT_FOUND"]
  /\ task_status # << >>

\* C9: update_task sets the status of the task's row to the status given,
\* whatever the row's status was, and leaves the other rows alone; so does
\* add_task (to STARTED) on a task_id that has a row.
C9_UpdateUnconditional ==
  ( /\ last.op \in {"update_task", "add_task"}
    /\ NoFaults(last)
    /\ RowsOf(last.before, last.task_id) # {} ) =>
    /\ Len(task_status) = Len(last.before)
    /\ \A i \in DOMAIN task_status :
         IF last.before[i].task_id = last.task_id
         THEN task_status[i].status = last.status
         ELSE task_status[i] = last.before[i]

C9_Witness ==
  /\ last.op = "update_task"
  /\ last.status = "STARTED"
  /\ \E i \in DOMAIN last.before :
       /\ last.before[i].task_id = last.task_id
       /\ last.before[i].status = "SUCCEEDED"
       /\ task_status[i].status = "STARTED"

\* C10: whatever fault the store raises, each of add_task, update_task and
\* get_task_status either returns or raises PostgresClientError.
C10_UniformClientError ==
  last.raised \in {"none", "PostgresClientError"}

\* ---------------------------------------------------------------------------
\* Properties of the batch embedder
\* ---------------------------------------------------------------------------
\* the arguments of the call, None read as the empty list
ArgTexts == IF text_list.none THEN << >> ELSE text_list.list
ArgMedias == IF media_descriptions.none THEN << >> ELSE media_descriptions.list

\* number of items of the input, the key of the i-th item (1-based) and the
\* text embedded for it
InputSize == Len(ArgTexts) + Len(ArgMedias)
InputKey(i) ==
  IF i <= Len(ArgTexts) THEN ArgTexts[i] ELSE ArgMedias[i - Len(ArgTexts)][1]
InputText(i) ==
  IF i <= Len(ArgTexts) THEN ArgTexts[i] ELSE ArgMedias[i - Len(ArgTexts)][2]
InputKeySet == { InputKey(i) : i \in 1..InputSize }
UniqueKeys == Cardinality(InputKeySet) = InputSize

\* every call of the provider was answered with one vector per text
ExactAnswers ==
  \A c \in DOMAIN batches :
    ~batches[c].raised /\ batches[c].returned = Len(batches[c].texts)

\* some call of the provider was answered with too few or too many vectors
LengthMismatch ==
  \E c \in DOMAIN batches :
    ~batches[c].raised /\ batches[c].returned # Len(batches[c].texts)

\* the vector the provider returned for the i-th item (1-based): vector j of
\* the answer to call b, where i - 1 = _MAX_BATCH_SIZE * b + j
VectorOfItem(i) ==
  Vector((i - 1) \div _MAX_BATCH_SIZE, (i - 1) % _MAX_BATCH_SIZE)

\* ceil(n / d)
Ceil(n, d) == (n + d - 1) \div d

\* C11: when the keys of the input are unique and the provider answers every
\* batch with one vector per text, the map returned by get_embeddings_batch
\* has exactly the keys of the input (a media item under its URI) and maps
\* the key of the i-th item to the vector the provider returned for the i-th
\* text, within a batch and across batch boundaries.
C11_KeysAndVectors ==
  (epc = "returned" /\ UniqueKeys /\ ExactAnswers) =>
     /\ DOMAIN embeddings.map = InputKeySet
     /\ Len(embeddings.keys) = InputSize
     /\ \A i \in 1..InputSize :
          /\ embeddings.keys[i] = InputKey(i)
          /\ embeddings.map[InputKey(i)] = VectorOfItem(i)

\* a call with texts and two media files returned, the second file being the
\* first item of the second batch
C11_Witness ==
  /\ epc = "returned" /\ UniqueKeys /\ ExactAnswers
  /\ Len(ArgMedias) = 2
  /\ Len(ArgTexts) = _MAX_BATCH_SIZE - 1
  /\ embeddings.map[Uri(2)] = Vector(1, 0)

\* C12: get_embeddings_batch on n texts calls the provider ceil(n / 200)
\* times, one call after the other; call b (0-based) receives the texts at
\* the positions 200*b .. min(200*(b+1), n) - 1 in input order, so no batch
\* is empty or longer than 200 and the batches concatenated are the input.
C12_Batches ==
  /\ \A c \in DOMAIN batches :
       LET first == _MAX_BATCH_SIZE * (c - 1)
           last_ == IF _MAX_BATCH_SIZE * c <= InputSize
                    THEN _MAX_BATCH_SIZE * c ELSE InputSize
       IN /\ first < last_
          /\ batches[c].texts =
               [j \in 1..(last_ - first) |-> InputText(first + j)]
  /\ Len(batches) <= Ceil(InputSize, _MAX_BATCH_SIZE)
  /\ epc = "returned" => Len(batches) = Ceil(InputSize, _MAX_BATCH_SIZE)

\* a call returned after three batches, the last one shorter than 200
C12_Witness ==
  /\ epc = "returned"
  /\ Len(batches) = 3
  /\ Len(batches[1].texts) = _MAX_BATCH_SIZE
  /\ Len(batches[3].texts) < _MAX_BATCH_SIZE

\* C13: when the provider answers some batch with a number of vectors that
\* differs from the number of texts of the batch, get_embeddings_batch fails:
\* it does not return a map.
C13_MismatchFails == LengthMismatch => epc # "returned"

\* ---------------------------------------------------------------------------
\* Properties of the media describer
\* ---------------------------------------------------------------------------
\* the extension of the i-th media path is in the allow-list of the describer
ValidPath(i) == file_extension(media_paths[i]) \in SUPPORTED_MEDIA_TYPES

\* number of attempts on which generate_content raises ResourceExhausted
\* before it does anything else
LeadingFailures(responses) ==
  Cardinality({ a \in DOMAIN responses :
                  \A b \in 1..a : responses[b] = "ResourceExhausted" })

\* the call of the i-th path is over
Ran(i) == generation_responses[i].state # "queued"

\* every attempt allowed for the i-th path met ResourceExhausted
Exhausted(i) ==
  /\ Ran(i) /\ ValidPath(i)
  /\ LeadingFailures(generation_responses[i].responses) >= stop_after_attempt

\* generate_descriptions_from_medias is over
DescribeOver == dpc \in {"returned", "raised"}

\* C15: a per-item call that meets ResourceExhausted is attempted again, at
\* most 10 attempts in all: when attempt k <= 10 is the first that does not
\* meet ResourceExhausted, generate_content was called exactly k times for
\* the item, which succeeds if that attempt succeeded and raises the other
\* error untried again if it raised one; the number of calls of an item
\* depends on the item alone, whatever the other items of the request did.
C15_RetriesPerItem ==
  \A i \in DOMAIN generation_responses :
    LET g == generation_responses[i]
        f == LeadingFailures(g.responses)
    IN (Ran(i) /\ ValidPath(i)) =>
         /\ g.calls <= stop_after_attempt
         /\ (f < stop_after_attempt /\ g.responses[f + 1] = "ok") =>
               (g.state = "returned" /\ g.calls = f + 1)
         /\ (f < stop_after_attempt /\ g.responses[f + 1] # "ok") =>
               /\ g.state = "raised"
               /\ g.raised = g.responses[f + 1]
               /\ g.calls = f + 1
         /\ f >= stop_after_attempt => g.calls = stop_after_attempt

\* two media: the first met ResourceExhausted once and then succeeded (two
\* calls), the second succeeded at once (one call)
C15_Witness ==
  /\ dpc = "returned"
  /\ Len(media_paths) = 2
  /\ generation_responses[1].calls = 2
  /\ generation_responses[2].calls = 1
  /\ descriptions =
       << << media_paths[1], GeneratedText(media_paths[1]) >>,
          << media_paths[2], GeneratedText(media_paths[2]) >> >>

\* C16 as stated: when all 10 attempts of an item met ResourceExhausted and
\* every other item succeeded, generate_descriptions_from_medias raises that
\* ResourceExhausted itself.
C16_LastErrorSurfaced ==
  \A i \in DOMAIN generation_responses :
    ( /\ DescribeOver
      /\ Exhausted(i)
      /\ \A j \in DOMAIN generation_responses \ {i} :
           generation_responses[j].state = "returned" ) =>
      (dpc = "raised" /\ draised = "ResourceExhausted")

\* C16: when all 10 attempts of an item met ResourceExhausted, the call of
\* the item raises tenacity.RetryError after 10 calls of generate_content;
\* generate_descriptions_from_medias, every call being over, raises (it
\* returns no list, so no description of a sibling reaches the caller), and
\* what it raises is the RetryError when no earlier item failed.
C16_ExhaustedRaisesRetryError ==
  \A i \in DOMAIN generation_responses :
    (DescribeOver /\ Exhausted(i)) =>
      /\ generation_responses[i].raised = "RetryError"
      /\ generation_responses[i].calls = stop_after_attempt
      /\ \A j \in DOMAIN generation_responses : Ran(j)
      /\ dpc = "raised"
      /\ descriptions = << >>
      /\ (\A j \in 1..(i - 1) : generation_responses[j].state = "returned") =>
            draised = "RetryError"

\* the first of two media used up its attempts, the second was described;
\* the call raised RetryError
C16_Witness ==
  /\ dpc = "raised"
  /\ draised = "RetryError"
  /\ Len(media_paths) = 2
  /\ Exhausted(1)
  /\ generation_responses[2].state = "returned"
  /\ generation_responses[2].calls >= 1

Called == kpc # "idle"
RequestTexts == AsList(request.text)
RequestMedia == AsList(request.media_uri)
EmptyRequest == ~Truthy(RequestTexts) /\ ~Truthy(RequestMedia)
Range(l) == { l[i] : i \in DOMAIN l }

\* the extension of the path, whatever its case, is outside the allow-list
Unsupported(path) == lower(file_extension(path)) \notin SUPPORTED_MEDIA_TYPES

C20_DeployOutcomes ==
  \A c \in DOMAIN deployments :
    LET d == deployments[c]
    IN /\ d.deployed_index_id = << d.display_name, "_", d.time_id >>
       /\ d.backend \in {"RuntimeError", "NotImplementedError"} =>
            d.raised = "IndexCreationInProgressError"
       /\ d.backend = "AlreadyExists" => d.raised = "AlreadyExists"
       /\ d.backend = "none" =>
            /\ d.raised = "none"
            /\ d.recorded = d.deployed_index_id
            /\ d.deployed_index_id \in backend_deployed
       /\ (c = Len(deployments) /\ d.backend = "none") =>
            embedding_index_deployed_id = d.deployed_index_id

\* a client deployed an index, then met AlreadyExists, then a RuntimeError
C20_Witness ==
  /\ Len(deployments) = 3
  /\ deployments[1].backend = "none"
  /\ embedding_index_deployed_id = deployments[1].deployed_index_id
  /\ deployments[2].backend = "AlreadyExists"
  /\ deployments[2].raised = "AlreadyExists"
  /\ deployments[3].backend = "RuntimeError"
  /\ deployments[3].raised = "IndexCreationInProgressError"

\* ---------------------------------------------------------------------------
\* Properties of the AiPlatformClient (SpecIndex)
\* ---------------------------------------------------------------------------
\* the last call of the client was op and raised nothing
Succeeded(call, op) == call.op = op /\ call.raised = "none"

\* C21: delete_all_embedding_index_endpoints deletes every endpoint the
\* backend lists, whatever its display name, and once every deletion has
\* succeeded the cached endpoint and the cached deployed id are None (they
\* are left as they were when a request raised); a find_neighbors_for_vectors
\* call made right after a successful teardown raises NotFoundError and
\* sends no query.
C21_TeardownClearsClient ==
  [][/\ Succeeded(ilast', "delete_all") /\ ilast' # ilast
          => /\ backend_endpoints' = << >>
             /\ ilast'.result = Len(backend_endpoints)
             /\ embedding_index_endpoint' = NoEndpoint
             /\ embedding_index_deployed_id' = NoDeployedId
     /\ ilast'.op = "delete_all" /\ ilast'.raised # "none" /\ ilast' # ilast
          => /\ embedding_index_endpoint' = embedding_index_endpoint
             /\ embedding_index_deployed_id' = embedding_index_deployed_id
     /\ Succeeded(ilast, "delete_all") /\ ilast'.op = "find_neighbors"
          => /\ ilast'.raised = "NotFoundError"
             /\ ilast'.queries = << >>]_vars

\* a teardown that listed endpoints of two display names has succeeded
C21_Witness ==
  /\ Succeeded(ilast, "delete_all")
  /\ \E i, j \in DOMAIN ilast.arg :
       /\ ilast.arg[i] = _DEFAULT_INDEX_ENDPOINT_DISPLAY_NAME
       /\ ilast.arg[j] # _DEFAULT_INDEX_ENDPOINT_DISPLAY_NAME
  /\ backend_endpoints = << >>
  /\ embedding_index_endpoint = NoEndpoint

\* ---------------------------------------------------------------------------
\* Properties of the pipeline's use of the backend (SpecPipeline)
\* ---------------------------------------------------------------------------
\* positions of a run between the teardown and the creation of the endpoint
AfterTeardown == {"index", "mark_endpoint", "endpoint"}
\* positions of a run after the endpoint was created
AfterEndpoint == {"mark_deploying", "deploy", "mark_succeeded"}

\* C22: over runs of the pipeline that follow one another, the backend never
\* holds two endpoints: it holds none once the teardown of a run returned,
\* and exactly one once the run created its endpoint.
C22_AtMostOneEndpoint ==
  /\ Len(backend_endpoints) <= 1
  /\ pc \in AfterTeardown => backend_endpoints = << >>
  /\ pc \in AfterEndpoint \/ (pc = "returned" /\ AllStepsSucceeded)
       => /\ Len(backend_endpoints) = 1
          /\ backend_endpoints[1].name = endpoints_created

\* a second run has replaced the endpoint of the first run by its own
C22_Witness ==
  /\ runs = 2
  /\ pc \in AfterEndpoint
  /\ endpoints_created = 2
  /\ Len(backend_endpoints) = 1
  /\ backend_endpoints[1].name = 2

\* C23: find_neighbors_for_vectors raises NotFoundError and sends no match
\* query when the client has no endpoint resolved, and when it has an
\* endpoint but no deployed id; otherwise it sends exactly one match query,
\* to the resolved endpoint with the resolved deployed id and the vectors
\* given, and returns the response of the backend as it is.
C23_FindNeighborsGuards ==
  ilast.op = "find_neighbors" =>
    IF \/ embedding_index_endpoint = NoEndpoint
       \/ embedding_index_deployed_id = NoDeployedId
    THEN /\ ilast.raised = "NotFoundError"
         /\ ilast.queries = << >>
    ELSE LET m == match(backend_endpoints, embedding_index_endpoint,
                        embedding_index_deployed_id, ilast.arg)
         IN /\ ilast.queries =
                 << [endpoint |-> embedding_index_endpoint,
                     deployed_index_id |-> embedding_index_deployed_id,
                     queries |-> ilast.arg] >>
            /\ ilast.raised = m.raised
            /\ ilast.raised # "NotFoundError"
            /\ ilast.raised = "none" =>
                 /\ ilast.result = m.response
                 /\ Len(ilast.result) = Len(ilast.arg)

\* a client that resolved an endpoint without a deployed index was queried
C23_Witness ==
  /\ ilast.op = "find_neighbors"
  /\ embedding_index_endpoint # NoEndpoint
  /\ embedding_index_deployed_id = NoDeployedId
  /\ ilast.raised = "NotFoundError"
  /\ \E i \in 1..Len(backend_endpoints) :
       /\ backend_endpoints[i].name = embedding_index_endpoint
       /\ backend_endpoints[i].deployed_indexes # << >>

\* the deployed indexes of the endpoint the client resolved
ResolvedDeployed ==
  backend_endpoints[IndexOf(backend_endpoints, embedding_index_endpoint)]
    .deployed_indexes

\* the deployed indexes of the resolved endpoint that bear the expected name
Expected ==
  { j \in 1..Len(ResolvedDeployed) :
      ResolvedDeployed[j].display_name =
        _DEFAULT_INDEX_DEPLOYED_DISPLAY_NAME }

\* C24: when the client resolves its endpoint, the deployed id it keeps is
\* the id of a deployed index of the expected display name whose creation
\* time is the greatest among the deployed indexes of that name; an index of
\* another display name is never chosen, however new; the id is None when no
\* deployed index bears the name, and when no endpoint was resolved.
C24_NewestExpectedDeployment ==
  ilast.op = "init" =>
    IF embedding_index_endpoint = NoEndpoint
    THEN embedding_index_deployed_id = NoDeployedId
    ELSE IF Expected = {}
    THEN embedding_index_deployed_id = NoDeployedId
    ELSE \E j \in Expected :
           /\ embedding_index_deployed_id = ResolvedDeployed[j].id
           /\ \A k \in Expected :
                ResolvedDeployed[k].create_time <=
                  ResolvedDeployed[j].create_time

\* the endpoint lists an older index of the expected name first, then a newer
\* one, and an index of another name that is newer than both
C24_Witness ==
  /\ ilast.op = "init"
  /\ embedding_index_endpoint # NoEndpoint
  /\ Len(ResolvedDeployed) = 3
  /\ \E j, k \in Expected, o \in 1..3 :
       /\ j < k
       /\ ResolvedDeployed[j].create_time < ResolvedDeployed[k].create_time
       /\ o \notin Expected
       /\ ResolvedDeployed[k].create_time < ResolvedDeployed[o].create_time
       /\ embedding_index_deployed_id = ResolvedDeployed[k].id

\* the endpoints of the backend that bear a display name
Bearing(display_name) ==
  { i \in 1..Len(backend_endpoints) :
      backend_endpoints[i].display_name = display_name }

\* C25: create_embeddings_index_endpoint finds or creates: once it has
\* returned, the backend holds exactly one endpoint of the display name it
\* was called with, also when it is called twice in a row.
C25_FindOrCreateEndpoint ==
  Succeeded(ilast, "create_endpoint") =>
    Cardinality(Bearing(ilast.arg)) = 1

\* the indexes of the backend that bear the default display name
DefaultIndexes ==
  { i \in 1..Len(backend_indexes) :
      backend_indexes[i] = _DEFAULT_INDEX_DISPLAY_NAME }

\* C26: however many runs of the pipeline there were, the backend holds at
\* most one index named 'embedding_index'.
C26_AtMostOneIndex == Cardinality(DefaultIndexes) <= 1

\* the positions in the events of the run where a piece of work was started
StartsOf(stage) == { i \in DOMAIN events : events[i] = Ev("work", stage) }

\* the teardown of the run is being executed, or has just raised
InTeardown ==
  pc = "teardown" \/ (pc = "except" /\ failedStep = "teardown")

\* C27: in a run, the index, the endpoint and the deployment are started
\* only after the one teardown of the run has returned, and a run in which
\* every step succeeded has torn down the endpoints exactly once, leaving
\* none of the endpoints that existed before.
C27_TeardownOnceBeforeIndex ==
  /\ Cardinality(StartsOf("teardown")) <= 1
  /\ \A stage \in {"index", "endpoint", "deploy"} :
       \A i \in StartsOf(stage) :
         \E j \in StartsOf("teardown") :
           /\ j < i
           /\ events[j + 1].kind # "raise"
  /\ AllStepsSucceeded =>
       /\ Cardinality(StartsOf("teardown")) = 1
       /\ \A i \in 1..Len(backend_endpoints) :
            backend_endpoints[i].name = endpoints_created

\* a second run succeeded: the endpoint of the first run was torn down
C27_Witness ==
  /\ AllStepsSucceeded
  /\ runs = 2
  /\ endpoints_created = 2
  /\ Cardinality(StartsOf("teardown")) = 1
  /\ StartsOf("index") # {}

\* C28 as stated: while the teardown is executing, and when it has failed,
\* the stored status of the task is IN_PROGRESS_WRITING_EMBEDDINGS_TO_GCS.
C28_TeardownBeforeIndexStatus ==
  InTeardown =>
    StoredStatus(task_id) = "IN_PROGRESS_WRITING_EMBEDDINGS_TO_GCS"

\* C28, amended: the teardown runs after the corpus was written and after
\* the status IN_PROGRESS_CREATING_EMBEDDINGS_INDEX was committed: while it
\* is executing, and when it has failed, that is the stored status.
C28_TeardownUnderIndexStatus ==
  InTeardown =>
    /\ StoredStatus(task_id) = "IN_PROGRESS_CREATING_EMBEDDINGS_INDEX"
    /\ \E w \in StartsOf("write") :
         \E c \in DOMAIN events :
           /\ w < c
           /\ events[c] =
                Ev("commit", "IN_PROGRESS_CREATING_EMBEDDINGS_INDEX")
           /\ \A t \in StartsOf("teardown") : c < t
    /\ StartsOf("index") = {}

\* the teardown of a run has raised
C28_Witness ==
  /\ pc = "except"
  /\ failedStep = "teardown"
  /\ StoredStatus(task_id) = "IN_PROGRESS_CREATING_EMBEDDINGS_INDEX"
  /\ StartsOf("teardown") # {}

\* ---------------------------------------------------------------------------
\* Properties of the corpus (SpecCorpus)
\* ---------------------------------------------------------------------------
\* the categories of the source: the column without its header row
SourceRows ==
  IF header /\ col_values # << >> THEN Tail(col_values) ELSE col_values

\* the lines of the files uploaded, file after file
RECURSIVE Lines(_)
Lines(files) ==
  IF files = << >> THEN << >> ELSE Head(files).data \o Lines(Tail(files))

\* the record a line of a file reads as
Parsed(line) == [id |-> line[2], embedding |-> line[4]]

\* C29: the run writes its corpus once; the corpus written holds one record
\* for each category of the source, in the order of the source without the
\* header row, the id of a record being the name of its category and its
\* embedding the vector the embedder returned for that name.
C29_CorpusRecords ==
  /\ [](spc = "written" =>
          /\ Len(Lines(uploads)) = Len(SourceRows)
          /\ \A i \in 1..Len(SourceRows) :
               /\ Parsed(Lines(uploads)[i]).id = SourceRows[i]
               /\ SourceRows[i] \in DOMAIN category_embeddings.map
               /\ Parsed(Lines(uploads)[i]).embedding =
                    category_embeddings.map[SourceRows[i]])
  /\ [][spc = "written" => uploads' = uploads]_vars

\* the column [header, cat1, cat2], read with header = True, was written
C29_Witness ==
  /\ spc = "written"
  /\ header
  /\ col_values = << Text(0), Text(1), Text(2) >>
  /\ Len(uploads) = 1
  /\ [i \in 1..2 |-> Parsed(uploads[1].data[i])] =
       << [id |-> Text(1), embedding |-> Vector(0, 0)],
          [id |-> Text(2), embedding |-> Vector(0, 1)] >>

\* C30: write_taxonomy_embeddings writes the n records of a taxonomy to the
\* files embeddings_0.json, embeddings_1.json, ... in this order, no file
\* holding more than 3,500 records; the lines of the files, file after
\* file, are the records of the taxonomy in their order, so every record is
\* in exactly one file.
C30_ChunkedFiles ==
  spc \in {"stored", "written"} =>
    /\ \A i \in 1..Len(uploads) :
         /\ uploads[i].file_name = << "embeddings", "_", i - 1, ".json" >>
         /\ Len(uploads[i].data) <= 3500
    /\ Lines(uploads) =
         [i \in 1..Len(taxonomy) |->
            << "id", taxonomy[i].name,
               "embedding", taxonomy[i].embeddings >>]

\* 7,001 records were written to three files of 2,334, 2,334 and 2,333
C30_Witness ==
  /\ spc = "stored"
  /\ Len(taxonomy) = 7001
  /\ Len(uploads) = 3
  /\ Len(uploads[1].data) = 2334
  /\ Len(uploads[2].data) = 2334
  /\ Len(uploads[3].data) = 2333

\* ---------------------------------------------------------------------------
\* Properties of the bucket (SpecCorpus)
\* ---------------------------------------------------------------------------
\* the write raised WriteTaxonomyError
WriteFailed == sraised = "WriteTaxonomyError"

\* C31: when an upload raises a storage client error the write fails with
\* WriteTaxonomyError naming the file in progress, no later chunk is
\* uploaded and none of the files the call uploaded before remains in the
\* bucket.
C31_FailedWriteAtomic ==
  WriteFailed =>
    /\ file_name = FileName(Len(uploads))
    /\ \A i \in DOMAIN uploads : uploads[i].file_name[3] < Len(uploads)
    /\ \A i \in DOMAIN uploads : \A k \in DOMAIN bucket :
         bucket[k] # uploads[i]

\* the ids of the records of the categories of the current taxonomy
TaxonomyIds == { taxonomy[i].name : i \in DOMAIN taxonomy }

\* C34: a write of m files replaces embeddings_0.json .. embeddings_{m-1}.json
\* and leaves every other file of the bucket as it was; the index a run
\* builds holds the records of every file of the bucket, those of the files
\* an earlier run left included.
C34_StaleFilesIndexed ==
  /\ [][/\ \A i \in DOMAIN uploads' :
             /\ uploads'[i].file_name = FileName(i - 1)
             /\ i \in DOMAIN bucket' /\ bucket'[i] = uploads'[i]
        /\ \A k \in DOMAIN bucket :
             k > Len(uploads') =>
               k \in DOMAIN bucket' /\ bucket'[k] = bucket[k]]_vars
  /\ [](spc \in {"indexed", "indexed_again"} =>
          LET lines == Lines(bucket)
          IN index_contents =
               [i \in DOMAIN lines |-> Parsed(lines[i]).id])

\* a run of 3,501 categories wrote two files, a later run of one category
\* wrote one file, and the index built then holds a category of the earlier
\* run
C34_Witness ==
  /\ spc = "indexed_again"
  /\ Len(uploads) = 1
  /\ TaxonomyIds = { Text(0 - 1) }
  /\ Len(bucket) = 2
  /\ Len(bucket[2].data) = 1750
  /\ Len(index_contents) = 1751
  /\ index_contents[1] = Text(0 - 1)
  /\ index_contents[1751] = Text(3501)

\* ---------------------------------------------------------------------------
\* Properties of the classification cron (SpecCron)
\* ---------------------------------------------------------------------------
\* the run sent a request: there was a keyword to classify
RequestMade == cron_runs > 0 /\ keywords # << >>

\* the attempts of the request that met a response that was not OK before
\* any other outcome
LeadingHttpErrors ==
  Cardinality({ a \in 1..5 : \A b \in 1..a : api_responses[b] = "HTTPError" })

TextsOf(table) == { row.keyword_text : row \in table }

\* the rows the jobs of a run inserted into the staging table
RECURSIVE InsertedRows(_)
InsertedRows(jobs) ==
  IF jobs = << >> THEN << >>
  ELSE (IF Head(jobs).job = "INSERT" THEN Head(jobs).rows ELSE << >>)
         \o InsertedRows(Tail(jobs))

Described(path) ==
  _get_file_type_from_extension(file_extension(path)) # "ValueError"

\* C33: classify accepts a media URI exactly when the describer accepts its
\* extension, so the describer raises no ValueError for a request whose
\* media URIs classify has validated.
C33_SameAllowListCheck ==
  Called =>
    /\ \A path \in Range(RequestMedia.list) :
         _has_valid_extension(path) <=> Described(path)
    /\ AllValid(RequestMedia) => ~(dpc = "raised" /\ draised = "ValueError")

\* the texts of the request that end in a supported media extension
MediaLikeTexts ==
  { text \in Range(RequestTexts.list) : ~Unsupported(text) }

\* C36: a classify call with text only never calls the describer and
\* returns no text result for a text that ends in a supported media
\* extension: once the embedder has returned a vector for such a text and
\* the index has been queried, the key is tagged as media, the lookup of its
\* description raises KeyError and the call raises.
C36_MediaLikeTextRaises ==
  Called /\ ~Truthy(RequestMedia) =>
    /\ ncalls.describer = 0
    /\ dpc = "idle"
    /\ \A i \in DOMAIN results : results[i].text \notin MediaLikeTexts
    /\ (/\ ncalls.index > 0
        /\ \E text \in MediaLikeTexts : text \in DOMAIN embeddings.map) =>
         /\ kpc = "raised"
         /\ kraised \in {"KeyError", "NotFoundError"}

\* the text 'x.png' alone was embedded, the index answered and the call
\* raised KeyError
C36_Witness ==
  /\ request.text = StrArg(Str(3, "png"))
  /\ request.media_uri = NoArg
  /\ ncalls = [describer |-> 0, embedder |-> 1, index |-> 1]
  /\ kpc = "raised"
  /\ kraised = "KeyError"


\* ---------------------------------------------------------------------------
\* C35: the client's cached state changes only at construction, at teardown
\* and at a successful deploy. create_embeddings_index and
\* create_embeddings_index_endpoint leave embedding_index_endpoint and
\* embedding_index_deployed_id as they were; deploy_embedding_index_to_endpoint
\* leaves embedding_index_endpoint as it was and records the new id only when
\* deploy_index returned (nothing changes when it raised). So a client that
\* has deleted all endpoints holds no endpoint until a new client is
\* constructed, whatever it created and deployed since, and its
\* find_neighbors_for_vectors raises NotFoundError without a query.
C35_CachedClientState ==
  /\ [](torn_down => embedding_index_endpoint = NoEndpoint)
  /\ [][/\ ilast'.op \in {"create_index", "create_endpoint"}
             => UNCHANGED << embedding_index_endpoint,
                             embedding_index_deployed_id >>
        /\ ilast'.op = "deploy"
             => /\ embedding_index_endpoint' = embedding_index_endpoint
                /\ IF ilast'.raised = "none"
                   THEN /\ embedding_index_deployed_id' = ilast'.arg
                        /\ ilast'.arg \in DeployedIds(backend_endpoints')
                        /\ ilast'.arg \notin DeployedIds(backend_endpoints)
                   ELSE UNCHANGED << embedding_index_deployed_id,
                                     backend_endpoints >>
        /\ torn_down /\ ilast'.op = "find_neighbors"
             => /\ ilast'.raised = "NotFoundError"
                /\ ilast'.queries = << >>]_vars

\* a client deleted all endpoints, an index and an endpoint of the default
\* name were created and an index of the default name was deployed on it by
\* the client, and the client's query raised NotFoundError although a new
\* client would resolve both the endpoint and the deployed index
C35_Witness ==
  /\ torn_down
  /\ ilast.op = "find_neighbors"
  /\ ilast.raised = "NotFoundError"
  /\ backend_indexes # << >>
  /\ embedding_index_deployed_id # NoDeployedId
  /\ LET endpoint ==
           _getembedding_index_endpoint(
             backend_endpoints, _DEFAULT_INDEX_ENDPOINT_DISPLAY_NAME)
     IN /\ endpoint # NoEndpoint
        /\ _getembedding_index_endpoint_deployed_index_id(
             backend_endpoints, endpoint,
             _DEFAULT_INDEX_DEPLOYED_DISPLAY_NAME)
             = embedding_index_deployed_id


\* ---------------------------------------------------------------------------
\* the entry point of the job restarts the classify service whenever the
\* setup function returned, and only then
\* ---------------------------------------------------------------------------
\* C37 as stated: the service is restarted after a run that returned, and
\* the restart is skipped only when a PostgresClientError or a
\* GetTaxonomyError left the setup function.
C37_RestartSkippedOnlyOnCaughtError ==
  exit_code # << >> =>
    /\ pc = "returned" => restarted
    /\ ~restarted =>
         EscapedError \in {"PostgresClientError", "GetTaxonomyError"}

\* C37: when the process of the job has ended, restart_cloud_run_service was
\* invoked if and only if the setup function returned, and then the stored
\* status of the task is SUCCEEDED or FAILED; it was skipped exactly when an
\* exception left the setup function, whatever its class (the
\* PostgresClientError of the task registration or of the update to FAILED,
\* but also an error of the client constructors or of the credentials
\* lookup), and the process then ended with code 1. A run that returned is
\* always followed by the restart.
C37_RestartAfterReturn ==
  /\ [](exit_code # << >> =>
          /\ restarted <=> pc = "returned"
          /\ restarted =>
               StoredStatus(task_id) \in {"SUCCEEDED", "FAILED"}
          /\ ~restarted => exit_code = << 1 >> /\ EscapedError # "none")
  /\ [](restarted => exit_code # << >>)
  /\ (pc = "returned" ~> restarted)

\* a step of the run raised, FAILED was recorded, and the service was
\* restarted
C37_Witness ==
  /\ exit_code # << >>
  /\ restarted
  /\ failedStep # "none"
  /\ StoredStatus(task_id) = "FAILED"


\* ---------------------------------------------------------------------------
\* overlapping executions of the job on one backend
\* ---------------------------------------------------------------------------
\* the calls of the log between positions i and j that are teardowns
TeardownsBetween(i, j) ==
  { m \in DOMAIN olog : i < m /\ m < j /\ olog[m].op = "teardown" }

\* positions i < j < k < l of the log: teardown(a), teardown(b),
\* create-endpoint(a), create-endpoint(b) of two jobs a and b, without
\* another teardown before the second creation
BothTornDownThenBothCreated(i, j, k, l) ==
  /\ i < j /\ j < k /\ k < l
  /\ olog[i].op = "teardown" /\ olog[j].op = "teardown"
  /\ olog[i].job # olog[j].job
  /\ olog[k].op = "create_endpoint" /\ olog[k].job = olog[i].job
  /\ olog[l].op = "create_endpoint" /\ olog[l].job = olog[j].job
  /\ TeardownsBetween(j, l) = {}

\* positions k < m < n of the log: create-endpoint(a), teardown(b), deploy(a)
CreatedThenTornDownByOther(k, m, n) ==
  /\ k < m /\ m < n
  /\ olog[k].op = "create_endpoint"
  /\ olog[m].op = "teardown" /\ olog[m].job # olog[k].job
  /\ olog[n].op = "deploy" /\ olog[n].job = olog[k].job

\* C38: with overlapping executions the backend does hold more than one
\* endpoint. Whenever two jobs both tear down and then both create their
\* endpoint, the backend lists, after the second creation, the endpoints of
\* both, two different endpoints of the same display name; and whenever
\* another job tears down between the creation of a job's endpoint and its
\* deploy, the job deploys to its own endpoint, which the backend no longer
\* lists, and the deploy raises.
C38_OverlapBreaksSingleEndpoint ==
  /\ \A l \in DOMAIN olog :
       olog[l].op = "create_endpoint" =>
         \A k \in 1..(l - 1) :
           olog[k].op = "create_endpoint" =>
             \A j \in 1..(k - 1) :
               olog[j].op = "teardown" /\ olog[j].job = olog[l].job =>
                 \A i \in 1..(j - 1) :
                   BothTornDownThenBothCreated(i, j, k, l) =>
                     /\ olog[k].endpoint # olog[l].endpoint
                     /\ \E x, y \in DOMAIN olog[l].live :
                          /\ olog[l].live[x][1] = olog[k].endpoint
                          /\ olog[l].live[y][1] = olog[l].endpoint
                          /\ olog[l].live[x][2] = olog[l].live[y][2]
  /\ \A n \in DOMAIN olog :
       olog[n].op = "deploy" =>
         \A m \in 1..(n - 1) :
           olog[m].op = "teardown" /\ olog[m].job # olog[n].job =>
             \A k \in 1..(m - 1) :
               CreatedThenTornDownByOther(k, m, n) =>
                 /\ olog[n].endpoint = olog[k].endpoint
                 /\ \A x \in DOMAIN olog[m].live :
                      olog[m].live[x][1] # olog[k].endpoint
                 /\ \A x \in DOMAIN olog[n].live :
                      olog[n].live[x][1] # olog[k].endpoint
                 /\ olog[n].raised # "none"

\* both interleavings have happened: two jobs tore down one right after the
\* other and created their endpoints one right after the other (the index
\* creations between), and a job deployed after the teardown of a job that
\* started later; the backend held two endpoints named
\* 'embedding_index_endpoint'
C38_Witness ==
  /\ \E i, j, k, l \in DOMAIN olog :
       /\ BothTornDownThenBothCreated(i, j, k, l)
       /\ j = i + 1 /\ l = k + 1
       /\ Len(olog[l].live) = 2
       /\ olog[l].live[1][2] = _DEFAULT_INDEX_ENDPOINT_DISPLAY_NAME
       /\ olog[l].live[2][2] = _DEFAULT_INDEX_ENDPOINT_DISPLAY_NAME
  /\ \E k, m, n \in DOMAIN olog :
       /\ CreatedThenTornDownByOther(k, m, n)
       /\ n = m + 1
       /\ olog[n].raised = "NotFound"

====
